---- MODULE Spec2Model ----
(***************************************************************************)
(* Model of the dsm hierarchical state machine engine                      *)
(* (src/include/dsm/dsm.hpp).                                              *)
(*                                                                         *)
(* The engine is single threaded and every public operation runs to its    *)
(* end before the caller continues, so each public operation is one        *)
(* action.  The body of an operation is a recursive operator that threads  *)
(* a record `m` (the mutable fields of the machine) through the calls the  *)
(* C++ code makes, user callbacks included: a callback may call back into  *)
(* the engine (postEvent, deferEvent, transit, processEvent) and the       *)
(* engine then runs that request at the very place the code runs it.       *)
(***************************************************************************)
EXTENDS Integers, Sequences, FiniteSets, TLC

Null == "null"

\* Bounds of the model
MaxFirings == 1      \* requests-issuing callback invocations per public call
MaxQueue == 2        \* items left queued when a public call returns
MaxCalls == 4        \* calls per run, from the first start, stop, event or transit on
                     \* (SpecBuild: builder calls included)

StateKinds == {"sm", "s0", "s1", "s2", "s3", "s4", "s5"}
EventKinds == {"e0", "e1", "e2"}
Root == "sm"

VARIABLES
    m_parentState,          \* StateBase::m_parentState, per state
    m_regionIndex,          \* StateBase::m_regionIndex, per state
    m_entry,                \* StateBase::m_entry, per state
    m_entryState,           \* Region::m_entryState, per region <<parent, index>>
    m_history,              \* Region::m_history, per region
    m_transitions,          \* StateBase::m_transitions, per state: event -> transition
    m_started,              \* StateBase::m_started, per state
    m_currentState,         \* Region::m_currentState, per region
    m_lastVisitedState,     \* Region::m_lastVisitedState, per region
    m_trigEvent,            \* StateBase::m_trigEvent, per state
    m_processing,           \* StateMachine::m_processing
    m_postedTransitions,    \* StateMachine::m_postedTransitions (queue)
    m_pendingTransitions,   \* StateMachine::m_pendingTransitions (deque)
    userCode,               \* what the user's callbacks do (the mocks' ON_CALL bodies)
    trace,                  \* callbacks invoked by the last public call, in order
    lastCall,               \* the last public call and its arguments
    invalidIterator,        \* what this build does with an invalidated deque iterator
    undefinedBehaviour,     \* an invalidated deque iterator has been used
    calls                   \* calls made so far, from the first start, stop, event or
                            \* transit on

topo == <<m_parentState, m_regionIndex, m_entry, m_entryState, m_history, m_transitions>>
vars == <<m_parentState, m_regionIndex, m_entry, m_entryState, m_history, m_transitions,
          m_started, m_currentState, m_lastVisitedState, m_trigEvent, m_processing,
          m_postedTransitions, m_pendingTransitions, userCode, trace, lastCall,
          invalidIterator, undefinedBehaviour, calls>>

----------------------------------------------------------------------------
(* Topology helpers *)

States == DOMAIN m_parentState
Regions == DOMAIN m_entryState

\* Region::m_children
m_children(r) == {s \in States : m_parentState[s] = r[1] /\ m_regionIndex[s] = r[2]}

\* StateBase::m_regions, a std::map<int, Region*>: iterated in ascending index
m_regions(s) ==
    LET idx == {i \in 0..1 : <<s, i>> \in Regions}
    IN  IF idx = {} THEN <<>>
        ELSE IF idx = {0, 1} THEN << <<s, 0>>, <<s, 1>> >>
        ELSE << <<s, CHOOSE i \in idx : TRUE>> >>

\* StateBase::m_parentRegion
m_parentRegion(s) == <<m_parentState[s], m_regionIndex[s]>>

RECURSIVE contains(_, _)
\* StateBase::contains / Region::contains
contains(s, x) ==
    \/ s = x
    \/ \E i \in 1..Len(m_regions(s)) : \E c \in m_children(m_regions(s)[i]) : contains(c, x)

\* Region::getOutermost
getOutermost(r, innerState, skippedState) ==
    LET cs == {c \in m_children(r) : c # skippedState /\ contains(c, innerState)}
    IN  IF cs = {} THEN Null ELSE CHOOSE c \in cs : TRUE

TransitionData(ca, so, do, s, d) ==
    [commonAncestor |-> ca, srcOutermost |-> so, dstOutermost |-> do, src |-> s, dst |-> d]

\* std::nullopt of std::optional<TransitionData>; also the null m_transition of a queued event
nullopt == TransitionData(Null, Null, Null, Null, Null)

\* StateBase::getTransitionData(src, dst): the common ancestor is the first state
\* containing both source and destination
RECURSIVE getTransitionData(_, _, _)
getTransitionData(this, src, dst) ==
    IF m_parentState[this] = Null THEN nullopt
    ELSE LET srcOutermost == getOutermost(m_parentRegion(this), src, this)
         IN  IF srcOutermost = Null
             THEN getTransitionData(m_parentState[this], src, dst)
             ELSE TransitionData(m_parentState[this], srcOutermost, this, src, dst)

\* StateBase::getTransitionData(dst): the common ancestor is the first started
\* state above the destination, the source outermost its current child
RECURSIVE getTransitionDataTop(_, _, _)
getTransitionDataTop(m, this, dst) ==
    IF m_parentState[this] = Null THEN nullopt
    ELSE IF ~m.started[m_parentState[this]]
         THEN getTransitionDataTop(m, m_parentState[this], dst)
         ELSE LET srcOutermost == m.current[m_parentRegion(this)]
              IN  TransitionData(m_parentState[this], srcOutermost, this, srcOutermost, dst)

\* a Propagate that lets any history of the region propagate, Shallow included
Propagate_anyHistory(propagateHistory, region) ==
    propagateHistory \/ m_history[region] # Null

\* a Propagate that passes the flag on and ignores the history of the region
Propagate_flagOnly(propagateHistory, region) ==
    propagateHistory

\* StateBase::Propagate
Propagate(propagateHistory, region) ==
    propagateHistory \/ m_history[region] = "Deep"

----------------------------------------------------------------------------
(* The machine while a public call runs.  `m` holds the mutable fields:     *)
(*   started, current, last, trig     per state / per region                *)
(*   posted, pending, processing      StateMachine members                  *)
(*   ret                              the bool the last engine call returned*)
(*   trace, depth, fired              observation of the callbacks          *)
(*   iters, ub                        deque iterators in use, and whether   *)
(*                                    one was used after being invalidated  *)
(*   guard                            what the guard callbacks return       *)
(*   thrown                           an exception thrown by a callback is  *)
(*                                    in flight                             *)

\* One queued item, details::PostedTransition
PostedTransition(evt, transition, deferred) ==
    [m_evt |-> evt, m_transition |-> transition, m_deferred |-> deferred]

\* std::deque::erase / push_back invalidate the iterators other frames hold
Invalidate(m) == [m EXCEPT !.iters = [i \in 1..Len(m.iters) |-> FALSE]]

Erase(q, i) == SubSeq(q, 1, i - 1) \o SubSeq(q, i + 1, Len(q))

\* State::preProcess / State::postProcess
preProcess(m) == [m EXCEPT !.processing = TRUE]
postProcess(m) == [m EXCEPT !.processing = FALSE]

Site(cb, st, evt) == <<cb, st, evt>>

\* a trigEvent that returns the triggering event whatever its kind
trigEvent_anyKind(m_trig, EventType) == m_trig

\* State::trigEvent<EventType>(): the triggering event as an EventType; m_trig is
\* m_trigEvent of the state
trigEvent(m_trig, EventType) ==
    IF m_trig # Null /\ m_trig = EventType THEN m_trig ELSE Null

\* What the caller's mocks record of one callback invocation (cb is onEntry, onExit,
\* guard or action), of one request a callback makes (cb is post, defer, transit or
\* process) and of one item the drain loop takes from the deque (cb is dispatch,
\* dispatchDeferred or dispatchTransit)
TraceEntry(m, cb, st, evt, dst) ==
    [cb |-> cb, st |-> st, evt |-> evt, dst |-> dst,
     processing |-> m.processing,       \* m_processing at that moment
     depth |-> m.depth,                 \* callbacks running at that moment
     started |-> m.started[st],         \* m_started of the state at that moment
     trigEvent |-> [e \in EventKinds |-> trigEvent(m.trig[st], e)],
                                        \* what trigEvent<e>() of the state returns
     queued |-> FALSE,                  \* a request: it was put on the queue
     ran |-> FALSE]                     \* a request: callbacks ran before it returned

Note(m, cb, st, evt, dst) == [m EXCEPT !.trace = Append(@, TraceEntry(m, cb, st, evt, dst))]

RECURSIVE Request(_, _, _), Engine(_, _, _), RunRequests(_, _, _, _), Invoke(_, _, _, _)
RECURSIVE startImpl(_, _, _, _, _), startRegions(_, _, _, _, _, _), RegionStart(_, _, _, _, _)
RECURSIVE stopImpl(_, _, _), stopRegions(_, _, _, _), RegionStop(_, _, _)
RECURSIVE transitImpl(_, _, _, _, _), transitRegions(_, _, _, _, _, _), startAncestors(_, _, _, _, _, _)
RECURSIVE processEventImpl(_, _, _, _), processRegions(_, _, _, _, _, _), exec(_, _, _)
RECURSIVE transit(_, _, _), deferEvent(_, _, _), postEvent(_, _, _), processEvent(_, _)
RECURSIVE drain(_), drainPending(_, _)

\* The body of a mocked callback: the requests the user code makes, in order
RunRequests(m, st, reqs, i) ==
    IF i > Len(reqs) \/ m.thrown THEN m
    ELSE RunRequests(Request(m, st, reqs[i]), st, reqs, i + 1)

\* A user callback (onEntry, onExit, guard or action of state st) is invoked.
\* It is recorded, and the requests the user code makes from it are run.
Invoke(m, cb, st, evt) ==
    IF /\ Site(cb, st, IF cb \in {"onEntry", "onExit"} THEN Null ELSE evt) \in DOMAIN userCode
       /\ m.fired < MaxFirings
    THEN [RunRequests([Note(m, cb, st, evt, Null) EXCEPT !.fired = @ + 1, !.depth = @ + 1], st,
                      userCode[Site(cb, st, IF cb \in {"onEntry", "onExit"} THEN Null ELSE evt)], 1)
            EXCEPT !.depth = m.depth]
    ELSE Note(m, cb, st, evt, Null)

\* One call into the engine made by the callback of state st
Engine(m, st, req) ==
    CASE req.k = "post" -> postEvent(m, st, req.evt)
      [] req.k = "defer" -> deferEvent(m, st, req.evt)
      [] req.k = "transit" -> transit(m, IF req.on = "self" THEN st ELSE Root, req.dst)
      [] req.k = "process" -> processEvent(m, req.evt)
      [] req.k = "throw" -> [m EXCEPT !.thrown = TRUE]

\* The call is recorded at the place where it was made, with what it did: r is the
\* machine when the call returns
Recorded(m, r, st, req) ==
    [r EXCEPT !.trace =
        SubSeq(@, 1, Len(m.trace))
        \o << [TraceEntry(m, req.k, st, req.evt, req.dst) EXCEPT
                  !.ran = Len(r.trace) > Len(m.trace),
                  !.queued = Len(r.trace) = Len(m.trace) /\ Len(r.posted) = Len(m.posted) + 1] >>
        \o SubSeq(@, Len(m.trace) + 1, Len(@))]

Request(m, st, req) == Recorded(m, Engine(m, st, req), st, req)

\* catch (...) { onError(std::current_exception()); } after a callback: onError of
\* state st is invoked if the callback threw
catchOnError(m, st) ==
    IF m.thrown THEN Note([m EXCEPT !.thrown = FALSE], "onError", st, Null, Null) ELSE m

\* StateBase::startImpl
startImpl(m, s, evt, propagateHistory, recurse) ==
    startRegions(catchOnError(Invoke([m EXCEPT !.started[s] = TRUE, !.trig[s] = evt],
                                     "onEntry", s, evt), s),
                 IF recurse THEN m_regions(s) ELSE <<>>, 1, evt, propagateHistory, Null)

\* a loop over m_regions that starts the first region only
startRegions_firstOnly(m, rs, i, evt, propagateHistory, skipped) ==
    IF i > Len(rs) \/ i > 1 THEN m
    ELSE startRegions(IF rs[i] = skipped THEN m
                      ELSE RegionStart(m, rs[i], evt, propagateHistory, Null),
                      rs, i + 1, evt, propagateHistory, skipped)

\* the loop over m_regions in startImpl and in startAncestors (which skips one region)
startRegions(m, rs, i, evt, propagateHistory, skipped) ==
    IF i > Len(rs) THEN m
    ELSE startRegions(IF rs[i] = skipped THEN m
                      ELSE RegionStart(m, rs[i], evt, propagateHistory, Null),
                      rs, i + 1, evt, propagateHistory, skipped)

\* Region::start that records an explicit destination as current without starting it
RegionStart_currentOnly(m, r, evt, propagateHistory, stateToStart) ==
    IF stateToStart = Null
    THEN LET cur == IF m.last[r] # Null /\ (m_history[r] # Null \/ propagateHistory)
                    THEN m.last[r]
                    ELSE m_entryState[r]
         IN  startImpl([m EXCEPT !.current[r] = cur], cur, evt, Propagate(propagateHistory, r), TRUE)
    ELSE [m EXCEPT !.current[r] = IF stateToStart \in m_children(r) THEN stateToStart ELSE Null]

\* StateBase::Region::start
RegionStart(m, r, evt, propagateHistory, stateToStart) ==
    LET cur == IF stateToStart = Null
               THEN IF m.last[r] # Null /\ (m_history[r] # Null \/ propagateHistory)
                    THEN m.last[r]
                    ELSE m_entryState[r]
               ELSE IF stateToStart \in m_children(r) THEN stateToStart ELSE Null
    IN  IF cur # Null
        THEN startImpl([m EXCEPT !.current[r] = cur], cur, evt, Propagate(propagateHistory, r), TRUE)
        ELSE [m EXCEPT !.current[r] = cur]

\* the end of a stopImpl that leaves the state started when its onExit has thrown
stopAborted(m, s) ==
    IF m.thrown THEN catchOnError(m, s) ELSE [m EXCEPT !.started[s] = FALSE]

\* a stopImpl that does not go on after an exception of onExit
stopImpl_abort(m, s, evt) ==
    stopAborted(Invoke(stopRegions([m EXCEPT !.trig[s] = evt], m_regions(s), 1, evt),
                       "onExit", s, evt), s)

\* a stopImpl that runs onExit of the state before it stops the regions of the state
stopImpl_parentFirst(m, s, evt) ==
    [stopRegions(catchOnError(Invoke([m EXCEPT !.trig[s] = evt], "onExit", s, evt), s),
                 m_regions(s), 1, evt)
        EXCEPT !.started[s] = FALSE]

\* StateBase::stopImpl
stopImpl(m, s, evt) ==
    [catchOnError(Invoke(stopRegions([m EXCEPT !.trig[s] = evt], m_regions(s), 1, evt),
                         "onExit", s, evt), s)
        EXCEPT !.started[s] = FALSE]

stopRegions(m, rs, i, evt) ==
    IF i > Len(rs) THEN m
    ELSE stopRegions(RegionStop(m, rs[i], evt), rs, i + 1, evt)

\* the end of Region::stop: m_lastVisitedState = m_currentState; m_currentState = nullptr
resetCurrent(m, r) == [m EXCEPT !.last[r] = m.current[r], !.current[r] = Null]

\* StateBase::Region::stop
RegionStop(m, r, evt) ==
    resetCurrent(IF m.current[r] # Null THEN stopImpl(m, m.current[r], evt) ELSE m, r)

\* transitImpl that starts the destination without stopping the source
transitImpl_noStop(m, this, evt, data, propagateHistory) ==
    IF this = data.commonAncestor
    THEN [startAncestors(m, data.dst, evt, data, this,
                         Propagate(propagateHistory, m_parentRegion(data.dstOutermost))).m
             EXCEPT !.ret = TRUE]
    ELSE transitRegions(m, m_regions(this), 1, evt, data, propagateHistory)

\* transitImpl that stops every region of the common ancestor, not only the region
\* of the source
transitImpl_stopAllRegions(m, this, evt, data, propagateHistory) ==
    IF this = data.commonAncestor
    THEN [startAncestors(stopRegions(m, m_regions(this), 1, evt),
                         data.dst, evt, data, this,
                         Propagate(propagateHistory, m_parentRegion(data.dstOutermost))).m
             EXCEPT !.ret = TRUE]
    ELSE transitRegions(m, m_regions(this), 1, evt, data, propagateHistory)

\* StateBase::transitImpl
transitImpl(m, this, evt, data, propagateHistory) ==
    IF this = data.commonAncestor
    THEN [startAncestors(IF data.srcOutermost # Null /\ m.started[data.srcOutermost]
                         THEN stopImpl(m, data.srcOutermost, evt)
                         ELSE m,
                         data.dst, evt, data, this,
                         Propagate(propagateHistory, m_parentRegion(data.dstOutermost))).m
             EXCEPT !.ret = TRUE]
    ELSE transitRegions(m, m_regions(this), 1, evt, data, propagateHistory)

\* the rest of the loop over m_regions in transitImpl once a sub-state has returned
transitNext(m, rs, i, evt, data, propagateHistory) ==
    IF m.ret THEN m
    ELSE transitRegions(m, rs, i + 1, evt, data, propagateHistory)

\* the loop over m_regions in transitImpl
transitRegions(m, rs, i, evt, data, propagateHistory) ==
    IF i > Len(rs) THEN [m EXCEPT !.ret = FALSE]
    ELSE transitNext(IF m.current[rs[i]] # Null
                     THEN transitImpl(m, m.current[rs[i]], evt, data,
                                      Propagate(propagateHistory, rs[i]))
                     ELSE [m EXCEPT !.ret = FALSE],
                     rs, i, evt, data, propagateHistory)

\* StateBase::startAncestors after its recursive call on the parent has returned `up`
startDescending(up, this, evt, data, previousState) ==
    LET propagate == Propagate(up.propagateHistory, m_parentRegion(this))
    IN  IF this = data.dst
        THEN [m |-> RegionStart(up.m, m_parentRegion(this), evt, propagate, this),
              propagateHistory |-> up.propagateHistory]
        ELSE [m |-> startRegions(startImpl([up.m EXCEPT !.current[m_parentRegion(this)] = this],
                                           this, evt, FALSE, FALSE),
                                 m_regions(this), 1, evt, propagate,
                                 m_parentRegion(previousState)),
              propagateHistory |-> propagate]

\* StateBase::startAncestors; propagateHistory is an in/out parameter
startAncestors(m, this, evt, data, previousState, propagateHistory) ==
    IF this = data.commonAncestor THEN [m |-> m, propagateHistory |-> propagateHistory]
    ELSE startDescending(startAncestors(m, m_parentState[this], evt, data, this, propagateHistory),
                         this, evt, data, previousState)

\* a transition callback that exits and re-enters the source of an internal transition
execTransit_selfExternal(m, t, evt) ==
    IF m.thrown THEN [catchOnError(m, t.src) EXCEPT !.ret = FALSE]
    ELSE IF t.data # nullopt THEN transitImpl(m, Root, evt, t.data, FALSE)
    ELSE [startImpl(stopImpl(m, t.src, evt), t.src, evt, FALSE, TRUE) EXCEPT !.ret = TRUE]

\* the end of a transition's callback: onError of the source and false if the action
\* threw; else transitImpl from the top state for an external transition, nothing
\* more for an internal one
execTransit(m, t, evt) ==
    IF m.thrown THEN [catchOnError(m, t.src) EXCEPT !.ret = FALSE]
    ELSE IF t.data # nullopt THEN transitImpl(m, Root, evt, t.data, FALSE)
    ELSE [m EXCEPT !.ret = TRUE]

\* a transition callback that goes on whatever the guard returned
execAction_ignoreGuard(m, t, evt) ==
    execTransit(IF t.action THEN Invoke(m, "action", t.holder, evt) ELSE m, t, evt)

\* a transition's callback once the guard has been evaluated (m.ret)
execAction(m, t, evt) ==
    IF ~m.ret THEN m
    ELSE execTransit(IF t.action THEN Invoke(m, "action", t.holder, evt) ELSE m, t, evt)

\* what the guard returned to the transition's callback (g is the machine when the
\* guard returns): onError of the source and false if it threw
guardResult(g, t) ==
    IF g.thrown THEN [catchOnError(g, t.src) EXCEPT !.ret = FALSE]
    ELSE [g EXCEPT !.ret = g.guard]

\* The callback stored in a transition (State::createTransitionImpl): guard,
\* action, then transitImpl from the top state for an external transition
exec(m, t, evt) ==
    execAction(IF t.guard THEN guardResult(Invoke(m, "guard", t.holder, evt), t)
               ELSE [m EXCEPT !.ret = TRUE],
               t, evt)

\* processEventImpl once the state's own transition has been tried (m.ret)
processSubStates(m, this, evt, propagateHistory) ==
    IF m.ret THEN m
    ELSE processRegions(m, m_regions(this), 1, evt, propagateHistory, FALSE)

\* processEventImpl that searches the sub-states first and the state's own
\* transitions only when no sub-state handled the event
processEventImpl_bottomUp(m, this, evt, propagateHistory) ==
    LET sub == processRegions(m, m_regions(this), 1, evt, propagateHistory, FALSE)
    IN  IF sub.ret \/ evt \notin DOMAIN m_transitions[this] THEN sub
        ELSE exec(sub, m_transitions[this][evt], evt)

\* StateBase::processEventImpl
processEventImpl(m, this, evt, propagateHistory) ==
    processSubStates(IF evt \in DOMAIN m_transitions[this]
                     THEN exec(m, m_transitions[this][evt], evt)
                     ELSE [m EXCEPT !.ret = FALSE],
                     this, evt, propagateHistory)

\* a loop over m_regions that stops at the first region whose sub-state handled the event
processNext_firstOnly(m, rs, i, evt, propagateHistory, result) ==
    IF m.ret THEN m
    ELSE processRegions(m, rs, i + 1, evt, propagateHistory, result)

\* result |= ... in the loop over m_regions in processEventImpl
processNext(m, rs, i, evt, propagateHistory, result) ==
    processRegions(m, rs, i + 1, evt, propagateHistory, result \/ m.ret)

\* the loop over m_regions in processEventImpl
processRegions(m, rs, i, evt, propagateHistory, result) ==
    IF i > Len(rs) THEN [m EXCEPT !.ret = result]
    ELSE processNext(IF m.current[rs[i]] # Null
                     THEN processEventImpl(m, m.current[rs[i]], evt,
                                           Propagate(propagateHistory, rs[i]))
                     ELSE [m EXCEPT !.ret = FALSE],
                     rs, i, evt, propagateHistory, result)

\* a queue that puts the new item in front
emplace_front(m, item) == [m EXCEPT !.posted = <<item>> \o @]

\* std::queue::emplace on m_postedTransitions
emplace(m, item) == [m EXCEPT !.posted = Append(@, item)]

\* State::transit<DstState>() once the TransitionData is computed
transitWith(m, transitionData) ==
    IF transitionData = nullopt THEN m
    ELSE IF ~m.processing
         THEN postProcess(transitImpl(preProcess(m), Root, Null, transitionData, FALSE))
         ELSE emplace(m, PostedTransition(Null, transitionData, FALSE))

\* State::transit<DstState>()
transit(m, this, dst) ==
    IF ~m.started[Root] THEN m
    ELSE IF dst \notin States THEN m
    ELSE IF m.started[dst] THEN m
    ELSE transitWith(m, IF this = Root THEN getTransitionDataTop(m, dst, dst)
                        ELSE getTransitionData(dst, this, dst))

\* State::deferEvent outside processing, once the event has been tried (m.ret)
deferUnhandled(m, evt) ==
    IF ~m.ret THEN emplace(m, PostedTransition(evt, nullopt, TRUE)) ELSE m

\* State::deferEvent
deferEvent(m, this, evt) ==
    IF ~m.started[Root] THEN m
    ELSE IF ~m.processing
         THEN postProcess(deferUnhandled(processEventImpl(preProcess(m), this, evt, FALSE), evt))
         ELSE emplace(m, PostedTransition(evt, nullopt, TRUE))

\* a postEvent that does not test whether the machine is started
postEvent_anytime(m, this, evt) ==
    IF ~m.processing
    THEN postProcess(processEventImpl(preProcess(m), this, evt, FALSE))
    ELSE emplace(m, PostedTransition(evt, nullopt, FALSE))

\* State::postEvent
postEvent(m, this, evt) ==
    IF ~m.started[Root] THEN m
    ELSE IF ~m.processing
         THEN postProcess(processEventImpl(preProcess(m), this, evt, FALSE))
         ELSE emplace(m, PostedTransition(evt, nullopt, FALSE))

\* StateMachine::processEvent
processEvent(m, evt) ==
    IF ~m.started[Root] THEN m
    ELSE postProcess(drain(processEventImpl(preProcess(m), Root, evt, FALSE)))

\* Transfer elements from posted to pending; push_back invalidates the iterators
\* that enclosing processEvent calls hold on the deque
transfer(m) ==
    IF m.posted = <<>> THEN m
    ELSE [Invalidate(m) EXCEPT !.pending = @ \o m.posted, !.posted = <<>>]

\* a loop that makes one more pass while items it has taken once remain in the deque
drainAgain_whileQueued(m) ==
    IF \/ m.posted # <<>>
       \/ /\ m.pending # <<>>
          /\ Cardinality({i \in 1..Len(m.trace) : m.trace[i].cb = "dispatchDeferred"})
                 <= Len(m.pending)
    THEN drain(m) ELSE m

\* while (false == m_postedTransitions.empty())
drainAgain(m) == IF m.posted # <<>> THEN drain(m) ELSE m

\* the do ... while loop of StateMachine::processEvent; the iterator `it` of this
\* call is the last element of m.iters while the inner loop runs
drain(m) ==
    drainAgain([drainPending([transfer(m) EXCEPT !.iters = Append(@, TRUE)], 1)
                   EXCEPT !.iters = SubSeq(@, 1, Len(@) - 1)])

\* One item of the deque is executed
dispatch(m, pending) ==
    IF pending.m_transition = nullopt
    THEN processEventImpl(Note(m, IF pending.m_deferred THEN "dispatchDeferred" ELSE "dispatch",
                               Root, pending.m_evt, Null),
                          Root, pending.m_evt, FALSE)
    ELSE transitImpl(Note(m, "dispatchTransit", Root, Null, pending.m_transition.dst),
                     Root, Null, pending.m_transition, FALSE)

\* an inner loop that erases every item it has executed, deferred or not
drainNext_eraseAlways(m, i, pending) ==
    IF ~m.iters[Len(m.iters)]
    THEN IF invalidIterator = "end"
         THEN [m EXCEPT !.ub = TRUE, !.iters[Len(m.iters)] = TRUE]
         ELSE drainPending([m EXCEPT !.ub = TRUE, !.iters[Len(m.iters)] = TRUE], 1)
    ELSE drainPending([Invalidate(m) EXCEPT !.pending = Erase(@, i),
                                            !.iters[Len(m.iters)] = TRUE], i)

\* the inner loop once the item at position i has been executed: erase it or keep it
drainNext(m, i, pending) ==
    IF ~m.iters[Len(m.iters)]
    THEN \* a processEvent nested in a callback changed the deque: `it` and `pending`
         \* dangle and the code goes on using them
         IF invalidIterator = "end"
         THEN [m EXCEPT !.ub = TRUE, !.iters[Len(m.iters)] = TRUE]
         ELSE drainPending([m EXCEPT !.ub = TRUE, !.iters[Len(m.iters)] = TRUE], 1)
    ELSE IF pending.m_transition # nullopt \/ ~pending.m_deferred \/ m.ret
         THEN drainPending([Invalidate(m) EXCEPT !.pending = Erase(@, i),
                                                 !.iters[Len(m.iters)] = TRUE], i)
         ELSE drainPending(m, i + 1)

\* the inner while loop over m_pendingTransitions; i is the position of `it`
drainPending(m, i) ==
    IF i > Len(m.pending) THEN m
    ELSE drainNext(dispatch(m, m.pending[i]), i, m.pending[i])

\* StateMachine::start
start(m) ==
    IF m.started[Root] THEN m ELSE startImpl(m, Root, Null, FALSE, TRUE)

\* StateMachine::stop
stop(m) ==
    IF ~m.started[Root] THEN m ELSE stopImpl(m, Root, Null)

----------------------------------------------------------------------------
(* History settings.  `hl` holds the two fields these calls write:          *)
(*   history     Region::m_history, per region                              *)
(*   last        Region::m_lastVisitedState, per region                     *)
(* An optional region is a set: empty for std::nullopt, else {region}.      *)

\* the regions of the children of region r
SubRegions(r) == {x \in Regions : x[1] \in m_children(r)}

\* Region::getDeepAncestor: this region or the closest region above it with Deep history
RECURSIVE getDeepAncestor(_, _)
getDeepAncestor(history, r) ==
    IF history[r] = "Deep" THEN {r}
    ELSE IF m_parentState[r[1]] # Null THEN getDeepAncestor(history, m_parentRegion(r[1]))
    ELSE {}

\* a getDeepDescendant that looks at this region only
getDeepDescendant_thisOnly(history, r) ==
    IF history[r] = "Deep" THEN {r} ELSE {}

\* Region::getDeepDescendant: this region or a region below it with Deep history
RECURSIVE getDeepDescendant(_, _)
getDeepDescendant(history, r) ==
    IF history[r] = "Deep" THEN {r}
    ELSE LET found == UNION {getDeepDescendant(history, x) : x \in SubRegions(r)}
         IN  IF found = {} THEN {} ELSE {CHOOSE x \in found : TRUE}

\* Region::getDeepAncestorOrDescendant
getDeepAncestorOrDescendant(history, r) ==
    IF history[r] = "Deep" THEN {r}
    ELSE IF getDeepAncestor(history, r) # {} THEN getDeepAncestor(history, r)
    ELSE getDeepDescendant(history, r)

\* Region::setHistory that stores the history before it checks for a conflict
RegionSetHistory_storeFirst(hl, r, history) ==
    [hl EXCEPT !.history[r] = history, !.last[r] = Null]

\* Region::setHistory
RegionSetHistory(hl, r, history) ==
    IF history = "Deep" /\ getDeepAncestorOrDescendant(hl.history, r) # {} THEN hl
    ELSE IF history = "Shallow" /\ getDeepAncestor(hl.history, r) # {} THEN hl
    ELSE [hl EXCEPT !.history[r] = history, !.last[r] = Null]

RECURSIVE RegionResetHistory(_, _, _), resetSubRegions(_, _)
\* Region::resetHistory
RegionResetHistory(hl, r, recursive) ==
    IF recursive
    THEN resetSubRegions([hl EXCEPT !.history[r] = Null, !.last[r] = Null], SubRegions(r))
    ELSE [hl EXCEPT !.history[r] = Null, !.last[r] = Null]

\* the loops over the children and their regions in Region::resetHistory
resetSubRegions(hl, rs) ==
    IF rs = {} THEN hl
    ELSE resetSubRegions(RegionResetHistory(hl, CHOOSE x \in rs : TRUE, TRUE),
                         rs \ {CHOOSE x \in rs : TRUE})

\* the loop over m_regions in StateMachine::setHistory<StateType>
RECURSIVE setHistoryRegions(_, _, _, _)
setHistoryRegions(hl, rs, i, history) ==
    IF i > Len(rs) THEN hl
    ELSE setHistoryRegions(RegionSetHistory(hl, rs[i], history), rs, i + 1, history)

\* StateMachine::setHistory<StateType>(history): every region of the state
setHistory(hl, state, history) ==
    IF state \notin States THEN hl
    ELSE setHistoryRegions(hl, m_regions(state), 1, history)

\* StateMachine::setHistory<StateType, RegionIndex>(history)
setHistoryRegion(hl, state, regionIndex, history) ==
    IF state \notin States THEN hl
    ELSE IF <<state, regionIndex>> \in Regions
         THEN RegionSetHistory(hl, <<state, regionIndex>>, history)
         ELSE hl

\* the loop over m_regions in StateMachine::resetHistory<StateType>
RECURSIVE resetHistoryRegions(_, _, _, _)
resetHistoryRegions(hl, rs, i, recursive) ==
    IF i > Len(rs) THEN hl
    ELSE resetHistoryRegions(RegionResetHistory(hl, rs[i], recursive), rs, i + 1, recursive)

\* StateMachine::resetHistory<StateType>(recursive)
resetHistory(hl, state, recursive) ==
    IF state \notin States THEN hl
    ELSE resetHistoryRegions(hl, m_regions(state), 1, recursive)

\* StateMachine::resetHistory<StateType, RegionIndex>(recursive)
resetHistoryRegion(hl, state, regionIndex, recursive) ==
    IF state \notin States THEN hl
    ELSE IF <<state, regionIndex>> \in Regions
         THEN RegionResetHistory(hl, <<state, regionIndex>>, recursive)
         ELSE hl

RECURSIVE setupHistoryImpl(_, _, _), setupHistoryRegions(_, _, _, _), setupHistoryChildren(_, _, _)
\* StateBase::setupHistoryImpl; getHistory[r] is what the state's getHistory override
\* returns for its region r
setupHistoryImpl(hl, s, getHistory) == setupHistoryRegions(hl, m_regions(s), 1, getHistory)

\* the loop over m_regions in setupHistoryImpl: the region, then its children
setupHistoryRegions(hl, rs, i, getHistory) ==
    IF i > Len(rs) THEN hl
    ELSE setupHistoryRegions(
             setupHistoryChildren(RegionSetHistory(hl, rs[i], getHistory[rs[i]]),
                                  m_children(rs[i]), getHistory),
             rs, i + 1, getHistory)

\* the loop over m_children in setupHistoryImpl (the regions of two children of one
\* region are unrelated, so the order of the children does not matter)
setupHistoryChildren(hl, cs, getHistory) ==
    IF cs = {} THEN hl
    ELSE setupHistoryChildren(setupHistoryImpl(hl, CHOOSE c \in cs : TRUE, getHistory),
                              cs \ {CHOOSE c \in cs : TRUE}, getHistory)

\* StateMachine::setup on a machine whose states and transitions are already built:
\* getStates and getTransitions return nothing, setupHistoryImpl applies getHistory
setup(hl, getHistory) == setupHistoryImpl(hl, Root, getHistory)

----------------------------------------------------------------------------
(* The builder calls.  `b` holds the fields these calls write:              *)
(*   parent, regionIndex, entry            per state attached to the machine*)
(*   entryState, history, last, current    per region                       *)
(*   transitions                           per state object                 *)
(*   errors      the states whose onError the call invoked, in order        *)
(*   thrown      an SmError is in flight                                    *)
(* A state object is named after its kind; "s1b" is a second object of      *)
(* kind s1.                                                                 *)

Objects == StateKinds \cup {"s1b"}

\* StateBase::m_index, the std::type_index of the state's class
m_index(o) == IF o = "s1b" THEN "s1" ELSE o

\* std::map::emplace / insert of a new key
Extend(f, k, v) == [x \in DOMAIN f \cup {k} |-> IF x = k THEN v ELSE f[x]]

\* Region::m_children in b
b_children(b, r) == {s \in DOMAIN b.parent : b.parent[s] = r[1] /\ b.regionIndex[s] = r[2]}

\* StateBase::getDescendantImpl<StateType> called on the machine: the state itself,
\* then its regions in ascending index.  Two attached states of one kind are children
\* of two regions of one state, so the one in the lower region is found.
getDescendantImpl(b, StateType) ==
    IF \A o \in DOMAIN b.parent : m_index(o) # StateType THEN Null
    ELSE CHOOSE o \in DOMAIN b.parent :
             /\ m_index(o) = StateType
             /\ \A p \in DOMAIN b.parent :
                    m_index(p) = StateType => b.regionIndex[o] <= b.regionIndex[p]

\* throw details::SmError()
throw(b) == [b EXCEPT !.thrown = TRUE]

\* catch (...) { onError(std::current_exception()); } in a function of state st
catch(b, st) ==
    IF b.thrown THEN [b EXCEPT !.errors = Append(@, st), !.thrown = FALSE] ELSE b

\* a state object that was created and is not attached yet
ChildState(id, parent, regionIndex, entry) ==
    [id |-> id, m_parentState |-> parent, m_regionIndex |-> regionIndex, m_entry |-> entry]

\* the nullptr that createState returns after an error
nullptr == ChildState(Null, Null, 0, FALSE)

\* State::createStateImpl called on state `this`; `created` are the kinds of the
\* objects the caller has created and not attached yet.  The result is nullptr when
\* the function throws.
createStateImpl(b, this, ChildKind, RegionIndex, EntryType, created) ==
    IF getDescendantImpl(b, ChildKind) # Null THEN nullptr
    ELSE ChildState(IF ChildKind \in created THEN "s1b" ELSE ChildKind,
                    this, RegionIndex, EntryType)

\* parent->m_regions[m_regionIndex] = new Region()
newRegion(b, r) ==
    [b EXCEPT !.entryState = Extend(@, r, Null), !.history = Extend(@, r, Null),
              !.last = Extend(@, r, Null), !.current = Extend(@, r, Null)]

\* region->m_children.emplace(m_index, this): nothing is inserted when the region
\* already has a child of that kind
emplaceChild(b, child, r) ==
    IF \E c \in b_children(b, r) : m_index(c) = m_index(child.id) THEN b
    ELSE [b EXCEPT !.parent = Extend(@, child.id, child.m_parentState),
                   !.regionIndex = Extend(@, child.id, child.m_regionIndex),
                   !.entry = Extend(@, child.id, child.m_entry)]

\* if (true == m_entry) region->m_entryState = this;
setEntryState(b, child, r) ==
    IF child.m_entry THEN [b EXCEPT !.entryState[r] = child.id] ELSE b

\* StateBase::addState(parent), called on the created state `child`
addState(b, child) ==
    IF /\ <<child.m_parentState, child.m_regionIndex>> \in DOMAIN b.entryState
       /\ child.m_entry
       /\ \E c \in b_children(b, <<child.m_parentState, child.m_regionIndex>>) : b.entry[c]
    THEN throw(b)
    ELSE setEntryState(
             emplaceChild(IF <<child.m_parentState, child.m_regionIndex>> \in DOMAIN b.entryState
                          THEN b
                          ELSE newRegion(b, <<child.m_parentState, child.m_regionIndex>>),
                          child, <<child.m_parentState, child.m_regionIndex>>),
             child, <<child.m_parentState, child.m_regionIndex>>)

\* childState = createStateImpl(...); childState->addState(parent): the first throws
\* when the kind exists
createAndAdd(b, child) == IF child.id = Null THEN throw(b) ELSE addState(b, child)

\* an addState of the machine that also runs while the machine is started
StateMachineAddState_whileStarted(b, ParentState, ChildKind, RegionIndex, EntryType) ==
    IF getDescendantImpl(b, ParentState) = Null THEN catch(throw(b), Root)
    ELSE catch(createAndAdd(b, createStateImpl(b, getDescendantImpl(b, ParentState),
                                              ChildKind, RegionIndex, EntryType, {})),
               Root)

\* an addState of the machine that reports no error
StateMachineAddState_silent(b, ParentState, ChildKind, RegionIndex, EntryType) ==
    IF m_started[Root] THEN b
    ELSE IF getDescendantImpl(b, ParentState) = Null THEN b
    ELSE [createAndAdd(b, createStateImpl(b, getDescendantImpl(b, ParentState),
                                          ChildKind, RegionIndex, EntryType, {}))
             EXCEPT !.thrown = FALSE]

\* StateMachine::addState<ParentState, ChildState, RegionIndex, EntryType>; the
\* overloads without ParentState are the call with the machine as parent
StateMachineAddState(b, ParentState, ChildKind, RegionIndex, EntryType) ==
    IF m_started[Root] THEN b
    ELSE IF getDescendantImpl(b, ParentState) = Null THEN catch(throw(b), Root)
    ELSE catch(createAndAdd(b, createStateImpl(b, getDescendantImpl(b, ParentState),
                                              ChildKind, RegionIndex, EntryType, {})),
               Root)

\* StateBase::contains in b
RECURSIVE b_contains(_, _, _)
b_contains(b, s, x) ==
    \/ s = x
    \/ \E c \in {c \in DOMAIN b.parent : b.parent[c] = s} : b_contains(b, c, x)

\* a getOutermost that does not skip the state it is given
b_getOutermost_noSkip(b, r, innerState, skippedState) ==
    IF \A c \in b_children(b, r) : ~b_contains(b, c, innerState) THEN Null
    ELSE CHOOSE c \in b_children(b, r) : b_contains(b, c, innerState)

\* Region::getOutermost in b
b_getOutermost(b, r, innerState, skippedState) ==
    IF \A c \in b_children(b, r) : c = skippedState \/ ~b_contains(b, c, innerState) THEN Null
    ELSE CHOOSE c \in b_children(b, r) : c # skippedState /\ b_contains(b, c, innerState)

\* StateBase::getTransitionData(src, dst) in b
RECURSIVE b_getTransitionData(_, _, _, _)
b_getTransitionData(b, this, src, dst) ==
    IF b.parent[this] = Null THEN nullopt
    ELSE IF b_getOutermost(b, <<b.parent[this], b.regionIndex[this]>>, src, this) = Null
         THEN b_getTransitionData(b, b.parent[this], src, dst)
         ELSE TransitionData(b.parent[this],
                             b_getOutermost(b, <<b.parent[this], b.regionIndex[this]>>, src, this),
                             this, src, dst)

\* the nullptr that createTransition returns after an error
NoTransition ==
    [src |-> Null, dst |-> Null, holder |-> Null, action |-> FALSE, guard |-> FALSE,
     data |-> nullopt]

\* a createTransitionImpl that does not check the transition data
createTransitionImpl_anyData(b, SrcState, StateType, action, guard, DstState) ==
    IF \/ getDescendantImpl(b, SrcState) = Null
       \/ getDescendantImpl(b, DstState) = Null
       \/ getDescendantImpl(b, StateType) = Null
    THEN NoTransition
    ELSE [src |-> getDescendantImpl(b, SrcState), dst |-> getDescendantImpl(b, DstState),
          holder |-> getDescendantImpl(b, StateType), action |-> action, guard |-> guard,
          data |-> IF SrcState = DstState THEN nullopt
                   ELSE b_getTransitionData(b, getDescendantImpl(b, DstState),
                                            getDescendantImpl(b, SrcState),
                                            getDescendantImpl(b, DstState))]

\* State::createTransitionImpl<SrcState, EventType, StateType, action, guard, DstState>.
\* The result is NoTransition when the function throws.
createTransitionImpl(b, SrcState, StateType, action, guard, DstState) ==
    IF \/ getDescendantImpl(b, SrcState) = Null
       \/ getDescendantImpl(b, DstState) = Null
       \/ getDescendantImpl(b, StateType) = Null
    THEN NoTransition
    ELSE IF ~b_contains(b, getDescendantImpl(b, StateType), getDescendantImpl(b, SrcState))
    THEN NoTransition
    ELSE IF /\ SrcState # DstState
            /\ b_getTransitionData(b, getDescendantImpl(b, DstState),
                                   getDescendantImpl(b, SrcState),
                                   getDescendantImpl(b, DstState)) = nullopt
    THEN NoTransition
    ELSE [src |-> getDescendantImpl(b, SrcState), dst |-> getDescendantImpl(b, DstState),
          holder |-> getDescendantImpl(b, StateType), action |-> action, guard |-> guard,
          data |-> IF SrcState = DstState THEN nullopt
                   ELSE b_getTransitionData(b, getDescendantImpl(b, DstState),
                                            getDescendantImpl(b, SrcState),
                                            getDescendantImpl(b, DstState))]

\* an addTransition that replaces the transition the source already has on the event
addTransition_replace(b, transition, EventType) ==
    IF transition.src = Null THEN throw(b)
    ELSE [b EXCEPT !.transitions[transition.src] = Extend(@, EventType, transition)]

\* transition = createTransitionImpl(...); StateBase::addTransition(transition): the
\* first throws when it returns nothing, the second when the source state already has
\* a transition on the event
addTransition(b, transition, EventType) ==
    IF transition.src = Null THEN throw(b)
    ELSE IF EventType \in DOMAIN b.transitions[transition.src] THEN throw(b)
    ELSE [b EXCEPT !.transitions[transition.src] = Extend(@, EventType, transition)]

\* StateMachine::addTransition<SrcState, EventType, StateType, action, guard, DstState>
StateMachineAddTransition(b, SrcState, EventType, StateType, action, guard, DstState) ==
    IF m_started[Root] THEN b
    ELSE catch(addTransition(b, createTransitionImpl(b, SrcState, StateType, action, guard,
                                                     DstState),
                             EventType),
               Root)

\* what the getStates / getTransitions override of the class of state s returns
Hook(cb, s) ==
    IF Site(cb, m_index(s), Null) \in DOMAIN userCode
    THEN userCode[Site(cb, m_index(s), Null)]
    ELSE <<>>

\* the kinds of the first n items of a getStates list
CreatedBefore(items, n) == {items[j].kind : j \in 1..n}

RECURSIVE setupStatesImpl(_, _), setupStatesList(_, _, _, _, _), setupStatesChildren(_, _)
\* StateBase::setupStatesImpl
setupStatesImpl(b, this) == setupStatesList(b, b, this, Hook("getStates", this), 1)

\* getStates() creates every state of the list before the loop attaches them: b0 is
\* the machine as getStates() found it.  A createState that fails reports to `this`
\* and yields nullptr, which the loop skips; an addState that throws reports to `this`.
\* Then the children run their own setupStatesImpl (the getStates lists of two
\* children of one state name different kinds, so their order does not matter).
setupStatesList(b0, b, this, items, i) ==
    IF i > Len(items)
    THEN setupStatesChildren(b, {c \in DOMAIN b.parent : b.parent[c] = this})
    ELSE setupStatesList(
             b0,
             IF createStateImpl(b0, this, items[i].kind, items[i].regionIndex,
                                items[i].entry, CreatedBefore(items, i - 1)).id = Null
             THEN catch(throw(b), this)
             ELSE catch(addState(b, createStateImpl(b0, this, items[i].kind,
                                                    items[i].regionIndex, items[i].entry,
                                                    CreatedBefore(items, i - 1))),
                        this),
             this, items, i + 1)

setupStatesChildren(b, cs) ==
    IF cs = {} THEN b
    ELSE setupStatesChildren(setupStatesImpl(b, CHOOSE c \in cs : TRUE),
                             cs \ {CHOOSE c \in cs : TRUE})

RECURSIVE setupTransitionsImpl(_, _), setupTransitionsList(_, _, _, _), setupTransitionsChildren(_, _)
\* StateBase::setupTransitionsImpl
setupTransitionsImpl(b, this) ==
    setupTransitionsList(b, this, Hook("getTransitions", this), 1)

\* createTransition<...>() of every item reports to `this` when it fails and yields
\* nullptr, which the loop skips; an addTransition that throws reports to `this`
setupTransitionsList(b, this, items, i) ==
    IF i > Len(items)
    THEN setupTransitionsChildren(b, {c \in DOMAIN b.parent : b.parent[c] = this})
    ELSE setupTransitionsList(
             catch(addTransition(b, createTransitionImpl(b, m_index(this), items[i].holder,
                                                         items[i].action, items[i].guard,
                                                         items[i].dst),
                                 items[i].evt),
                   this),
             this, items, i + 1)

setupTransitionsChildren(b, cs) ==
    IF cs = {} THEN b
    ELSE setupTransitionsChildren(setupTransitionsImpl(b, CHOOSE c \in cs : TRUE),
                                  cs \ {CHOOSE c \in cs : TRUE})

\* StateBase::setupHistoryImpl with the getHistory of StateBase, which returns
\* std::nullopt: Region::setHistory stores it and resets the last visited state
b_setupHistoryImpl(b) ==
    [b EXCEPT !.history = [r \in DOMAIN b.entryState |-> Null],
              !.last = [r \in DOMAIN b.entryState |-> Null]]

\* StateBase::setupImpl
setupImpl(b) == b_setupHistoryImpl(setupTransitionsImpl(setupStatesImpl(b, Root), Root))

\* StateMachine::setup
StateMachineSetup(b) == IF m_started[Root] THEN b ELSE setupImpl(b)

\* StateMachine::setHistory, both overloads (regionIndex -1: no RegionIndex argument)
StateMachineSetHistory(hl, state, regionIndex, history) ==
    IF m_started[Root] THEN hl
    ELSE IF regionIndex = -1 THEN setHistory(hl, state, history)
    ELSE setHistoryRegion(hl, state, regionIndex, history)

\* StateMachine::resetHistory, both overloads
StateMachineResetHistory(hl, state, regionIndex, recursive) ==
    IF m_started[Root] THEN hl
    ELSE IF regionIndex = -1 THEN resetHistory(hl, state, recursive)
    ELSE resetHistoryRegion(hl, state, regionIndex, recursive)

----------------------------------------------------------------------------
(* The machine under test: the topology and transitions the builder calls   *)
(* create before start(), in the style of tests/main.cpp                    *)

InitParentState ==
    [s \in StateKinds |-> CASE s = "sm" -> Null
                            [] s \in {"s0", "s1"} -> "sm"
                            [] OTHER -> "s0"]
InitRegionIndex == [s \in StateKinds |-> IF s \in {"s4", "s5"} THEN 1 ELSE 0]
InitEntry == [s \in StateKinds |-> s \in {"s0", "s2", "s4"}]
InitRegions == {<<"sm", 0>>, <<"s0", 0>>, <<"s0", 1>>}

\* addTransition<Src, Event, Holder, action, guard, Dst>
Transition(src, dst, holder, action, guard) ==
    [src |-> src, dst |-> dst, holder |-> holder, action |-> action, guard |-> guard,
     data |-> IF src = dst THEN nullopt ELSE getTransitionData(dst, src, dst)]

InitTransitions ==
    [s \in StateKinds |->
        CASE s = "s0" -> [e \in {"e1"} |-> Transition("s0", "s1", "s0", TRUE, FALSE)]
          [] s = "s1" -> [e \in {"e1", "e2"} |->
                            IF e = "e1" THEN Transition("s1", "s3", "s1", FALSE, FALSE)
                            ELSE Transition("s1", "s1", "s1", TRUE, TRUE)]
          [] s = "s2" -> [e \in {"e0"} |-> Transition("s2", "s3", "s2", TRUE, TRUE)]
          [] s = "s3" -> [e \in {"e1"} |-> Transition("s3", "s2", "s3", TRUE, FALSE)]
          [] s = "s4" -> [e \in {"e0"} |-> Transition("s4", "s5", "s4", FALSE, FALSE)]
          [] s = "s5" -> [e \in {"e2"} |-> Transition("s5", "s4", "s0", TRUE, FALSE)]
          [] OTHER -> <<>>]

\* The requests a callback may make
Post(e) == [k |-> "post", evt |-> e, on |-> "self", dst |-> Null]
Defer(e) == [k |-> "defer", evt |-> e, on |-> "self", dst |-> Null]
TransitTo(on, d) == [k |-> "transit", evt |-> Null, on |-> on, dst |-> d]
Process(e) == [k |-> "process", evt |-> e, on |-> Root, dst |-> Null]

Programs ==
    { <<>> } \cup
    { [x \in {site} |-> reqs] :
        site \in {Site("action", "s1", "e2"), Site("onEntry", "s2", Null),
                  Site("onExit", "s2", Null)},
        reqs \in {<<Post("e1")>>, <<Post("e1"), Post("e0")>>, <<TransitTo("self", "s3")>>,
                  <<Process("e1")>>, <<Defer("e0")>>} }

\* the machine after construction, start() not yet called, with the given transitions;
\* the user's callbacks run one of the given programs
InitUser(transitions, programs) ==
    /\ m_parentState = InitParentState
    /\ m_regionIndex = InitRegionIndex
    /\ m_entry = InitEntry
    /\ m_entryState = [r \in InitRegions |->
                          CHOOSE s \in StateKinds :
                              /\ InitParentState[s] = r[1] /\ InitRegionIndex[s] = r[2]
                              /\ InitEntry[s]]
    /\ m_history = [r \in InitRegions |-> Null]
    /\ m_transitions = transitions
    /\ m_started = [s \in StateKinds |-> FALSE]
    /\ m_currentState = [r \in InitRegions |-> Null]
    /\ m_lastVisitedState = [r \in InitRegions |-> Null]
    /\ m_trigEvent = [s \in StateKinds |-> Null]
    /\ m_processing = FALSE
    /\ m_postedTransitions = <<>>
    /\ m_pendingTransitions = <<>>
    /\ userCode \in programs
    /\ invalidIterator \in IF \E site \in DOMAIN userCode :
                                \E i \in 1..Len(userCode[site]) : userCode[site][i].k = "process"
                           THEN {"end", "begin"} ELSE {"end"}
    /\ trace = <<>>
    /\ lastCall = [op |-> "none"]
    /\ undefinedBehaviour = FALSE
    /\ calls = 0

Init == InitUser(InitTransitions, Programs)

\* The machine as a public call finds it
Machine(guard) ==
    [started |-> m_started, current |-> m_currentState, last |-> m_lastVisitedState,
     trig |-> m_trigEvent, processing |-> m_processing,
     posted |-> m_postedTransitions, pending |-> m_pendingTransitions,
     ret |-> FALSE, trace |-> <<>>, depth |-> 0, fired |-> 0,
     iters |-> <<>>, ub |-> undefinedBehaviour, guard |-> guard, thrown |-> FALSE]

\* ... and as the call leaves it
Return(m, call) ==
    /\ lastCall.op = "none"
    /\ calls < MaxCalls
    /\ calls' = calls + 1
    /\ Len(m.posted) + Len(m.pending) <= MaxQueue
    /\ m_started' = m.started
    /\ m_currentState' = m.current
    /\ m_lastVisitedState' = m.last
    /\ m_trigEvent' = m.trig
    /\ m_processing' = m.processing
    /\ m_postedTransitions' = m.posted
    /\ m_pendingTransitions' = m.pending
    /\ trace' = m.trace
    /\ undefinedBehaviour' = m.ub
    /\ lastCall' = call
    /\ UNCHANGED <<topo, userCode, invalidIterator>>

Call(op, on, evt, dst, guard) ==
    [op |-> op, on |-> on, evt |-> evt, dst |-> dst, guard |-> guard]

\* The states on which the caller invokes postEvent, deferEvent and transit: the
\* machine, a simple state and a nested state
Callers == {Root, "s1", "s3"}

Start == Return(start(Machine(TRUE)), Call("start", Root, Null, Null, TRUE))

Stop == Return(stop(Machine(TRUE)), Call("stop", Root, Null, Null, TRUE))

ProcessEvent ==
    \E evt \in EventKinds, guard \in BOOLEAN :
        Return(processEvent(Machine(guard), evt), Call("processEvent", Root, evt, Null, guard))

PostEvent ==
    \E this \in Callers, evt \in EventKinds, guard \in BOOLEAN :
        Return(postEvent(Machine(guard), this, evt), Call("postEvent", this, evt, Null, guard))

DeferEvent ==
    \E this \in Callers, evt \in EventKinds, guard \in BOOLEAN :
        Return(deferEvent(Machine(guard), this, evt), Call("deferEvent", this, evt, Null, guard))

Transit ==
    \E this \in Callers, dst \in States \ {Root}, guard \in {TRUE} :
        Return(transit(Machine(guard), this, dst), Call("transit", this, Null, dst, guard))

\* The caller has looked at what the call did (the mocks' expectations are verified
\* and reset) and is ready to make the next call
Observe ==
    /\ lastCall.op # "none"
    /\ lastCall' = [op |-> "none"]
    /\ trace' = <<>>
    /\ UNCHANGED <<topo, m_started, m_currentState, m_lastVisitedState, m_trigEvent,
                   m_processing, m_postedTransitions, m_pendingTransitions, userCode,
                   invalidIterator, undefinedBehaviour, calls>>

Next == Start \/ Stop \/ ProcessEvent \/ PostEvent \/ DeferEvent \/ Transit \/ Observe

Spec == Init /\ [][Next]_vars

----------------------------------------------------------------------------
(* The machine with its history settings: the callbacks make no request,    *)
(* and setHistory, resetHistory and setup are called between the public     *)
(* calls.  On a started machine these calls return at once                  *)
(* (if (this->started()) return;), so they are steps of a stopped machine.  *)
(* The calls that configure the machine before its first start are not      *)
(* counted: the history settings they can reach are finitely many.          *)

Histories == {"Shallow", "Deep"}

\* the states named in the calls: the machine, a composite state, a simple state and
\* a state the machine does not have
StateTypes == {Root, "s0", "s1", "s9"}

\* the history settings as a call finds them
HistoryFields == [history |-> m_history, last |-> m_lastVisitedState]

HistoryCall(op, state, regionIndex, history, recursive) ==
    [op |-> op, on |-> state, evt |-> Null, dst |-> Null, guard |-> TRUE,
     regionIndex |-> regionIndex, history |-> history, recursive |-> recursive]

\* ... and as the call leaves them
Built(hl, call) ==
    /\ lastCall.op = "none"
    /\ ~m_started[Root]
    /\ calls < MaxCalls
    /\ calls' = IF calls = 0 THEN 0 ELSE calls + 1
    /\ m_history' = hl.history
    /\ m_lastVisitedState' = hl.last
    /\ lastCall' = call
    /\ UNCHANGED <<m_parentState, m_regionIndex, m_entry, m_entryState, m_transitions,
                   m_started, m_currentState, m_trigEvent, m_processing,
                   m_postedTransitions, m_pendingTransitions, userCode, trace,
                   invalidIterator, undefinedBehaviour>>

\* regionIndex -1 stands for the call without a RegionIndex template argument
SetHistory ==
    \E state \in StateTypes, history \in Histories :
        Built(setHistory(HistoryFields, state, history),
              HistoryCall("setHistory", state, -1, history, FALSE))

SetHistoryRegion ==
    \E state \in StateTypes, regionIndex \in {0, 1}, history \in Histories :
        Built(setHistoryRegion(HistoryFields, state, regionIndex, history),
              HistoryCall("setHistory", state, regionIndex, history, FALSE))

ResetHistory ==
    \E state \in StateTypes, recursive \in BOOLEAN :
        Built(resetHistory(HistoryFields, state, recursive),
              HistoryCall("resetHistory", state, -1, Null, recursive))

ResetHistoryRegion ==
    \E state \in StateTypes, regionIndex \in {0, 1}, recursive \in BOOLEAN :
        Built(resetHistoryRegion(HistoryFields, state, regionIndex, recursive),
              HistoryCall("resetHistory", state, regionIndex, Null, recursive))

\* setup() on a machine whose states override getHistory: getHistory[r] is what the
\* parent state of region r returns for it, Null where it does not override
SetupCall(getHistory) ==
    [op |-> "setup", on |-> Root, evt |-> Null, dst |-> Null, guard |-> TRUE,
     regionIndex |-> -1, history |-> Null, recursive |-> FALSE, getHistory |-> getHistory]

Setup ==
    \E getHistory \in [Regions -> Histories \cup {Null}] :
        Built(setup(HistoryFields, getHistory), SetupCall(getHistory))

InitHistory == Init /\ userCode = <<>>

NextHistory ==
    \/ Next
    \/ SetHistory \/ SetHistoryRegion \/ ResetHistory \/ ResetHistoryRegion \/ Setup

SpecHistory == InitHistory /\ [][NextHistory]_vars

----------------------------------------------------------------------------
(* The machine and a caller that looks at it with checkStates between the   *)
(* public calls, as test_check_states does.  The callbacks make no request. *)

\* StateBase::getDescendantImpl<StateType>() on the built machine: the state itself or
\* a state below it
getDescendant(this, StateType) ==
    IF StateType \in States /\ contains(this, StateType) THEN StateType ELSE Null

\* StateBase::checkStatesImpl<FirstStateType, OtherStateTypes...>(previousState); the
\* template arguments are list[i], list[i + 1], ...
RECURSIVE checkStatesImpl(_, _, _, _)
checkStatesImpl(this, list, i, previousState) ==
    IF i > Len(list) THEN m_started[this]
    ELSE LET state == getDescendant(this, list[i])
         IN  IF state = Null THEN FALSE
             ELSE IF state = previousState THEN FALSE
             ELSE IF ~m_started[state] THEN FALSE
             ELSE IF previousState # Null /\ m_parentState[state] # previousState THEN FALSE
             ELSE IF i = Len(list) THEN TRUE
             ELSE checkStatesImpl(state, list, i + 1, state)

\* State::checkStates<StateTypes...>(), called on the machine
checkStates(list) ==
    IF list = <<>> THEN FALSE
    ELSE IF list[1] = Root THEN checkStatesImpl(Root, list, 2, Root)
    ELSE checkStatesImpl(Root, list, 1, Null)

\* the lists the caller asks about: every list of at most two of these kinds (s9 is
\* not in the machine), and some longer ones
CheckedKinds == {Root, "s0", "s1", "s2", "s3", "s9"}
StateLists ==
    {<<>>} \cup {<<a>> : a \in CheckedKinds}
    \cup {<<a, b>> : a \in CheckedKinds, b \in CheckedKinds}
    \cup {<<Root, "s0", "s2">>, <<Root, "s0", "s3">>, <<Root, "s0", "s5">>,
          <<Root, "s0", "s0">>, <<Root, Root, "s0">>, <<Root, "s2", "s0">>,
          <<"s0", "s2", "s3">>, <<Root, "s0", "s9">>, <<Root, "s1", "s3">>}

\* the caller evaluates checkStates<list...>() on the machine
CheckStates ==
    \E list \in StateLists :
        /\ lastCall.op = "none"
        /\ lastCall' = [op |-> "checkStates", list |-> list, result |-> checkStates(list)]
        /\ UNCHANGED <<topo, m_started, m_currentState, m_lastVisitedState, m_trigEvent,
                       m_processing, m_postedTransitions, m_pendingTransitions, userCode,
                       trace, invalidIterator, undefinedBehaviour, calls>>

NextCheck == Next \/ CheckStates

SpecCheck == InitHistory /\ [][NextCheck]_vars

----------------------------------------------------------------------------
(* The machine with callbacks that throw, as in test_error_on_entry,        *)
(* test_error_on_exit and test_error_on_action.  The transition of s0 on e1 *)
(* has a guard here, so that a composite state with a guarded transition    *)
(* has an active child with a transition on the same event.                 *)

\* addTransition<s0, e1, s0, &s0::onEvent1, &s0::guard, s1>
GuardedTransitions ==
    [InitTransitions EXCEPT !["s0"] = [e \in {"e1"} |-> Transition("s0", "s1", "s0", TRUE, TRUE)]]

\* throw "exception ..." in the body of a callback
Throw == [k |-> "throw", evt |-> Null, on |-> "self", dst |-> Null]

\* the callbacks that throw: onEntry and onExit of a simple state, of a composite state
\* and of the machine, the action of an external transition whose source has children
\* with a transition on the same event, of an external transition between simple
\* states, of a transition whose action holder is not its source, of an internal
\* transition, and the guard of a simple and of a composite state; a callback may post
\* an event before it throws
ThrowSites ==
    {Site("onEntry", "s2", Null), Site("onExit", "s2", Null),
     Site("onEntry", "s0", Null), Site("onExit", "s0", Null),
     Site("onEntry", Root, Null), Site("onExit", Root, Null),
     Site("action", "s0", "e1"), Site("action", "s3", "e1"), Site("action", "s0", "e2"),
     Site("action", "s1", "e2"), Site("guard", "s2", "e0"), Site("guard", "s0", "e1")}

Errors ==
    { [x \in {site} |-> <<Throw>>] : site \in ThrowSites }
    \cup { [x \in {Site("onExit", "s2", Null)} |-> <<Post("e1"), Throw>>] }

InitError == InitUser(GuardedTransitions, Errors)

SpecError == InitError /\ [][Next]_vars

----------------------------------------------------------------------------
(* The machine while it is built: it starts with the machine alone, and     *)
(* addState, addTransition, setup, setHistory and resetHistory are called   *)
(* on it, before start() and after it.  The classes of the states override  *)
(* getStates and getTransitions as userCode says.                           *)

\* createState<kind, regionIndex, Entry / NoEntry>() in a getStates override
CreateState(kind, regionIndex, entry) ==
    [kind |-> kind, regionIndex |-> regionIndex, entry |-> entry]

\* createTransition<evt, holder, action, guard, dst>() in a getTransitions override
CreateTransition(evt, holder, action, guard, dst) ==
    [evt |-> evt, holder |-> holder, action |-> action, guard |-> guard, dst |-> dst]

\* The overrides of one test each: none; a composite machine with a kind already
\* used, a transition to the parent and a second transition on one event; a kind
\* created twice for two regions; a kind created twice for one region; two entry
\* states for one region
Overrides ==
    { <<>>,
      (Site("getStates", Root, Null) :>
           <<CreateState("s0", 0, TRUE), CreateState("s1", 0, FALSE)>>) @@
      (Site("getStates", "s0", Null) :>
           <<CreateState("s2", 0, TRUE), CreateState("s1", 1, FALSE)>>) @@
      (Site("getTransitions", "s0", Null) :>
           <<CreateTransition("e0", "s0", FALSE, FALSE, "s1"),
             CreateTransition("e0", "s0", TRUE, FALSE, "s0")>>) @@
      (Site("getTransitions", "s2", Null) :>
           <<CreateTransition("e0", "s2", FALSE, FALSE, "s0")>>),
      (Site("getStates", Root, Null) :>
           <<CreateState("s1", 0, FALSE), CreateState("s1", 1, TRUE)>>),
      (Site("getStates", Root, Null) :>
           <<CreateState("s1", 0, FALSE), CreateState("s1", 0, TRUE)>>),
      (Site("getStates", Root, Null) :>
           <<CreateState("s0", 0, TRUE), CreateState("s1", 0, TRUE)>>) }

InitBuild ==
    /\ m_parentState = [s \in {Root} |-> Null]
    /\ m_regionIndex = [s \in {Root} |-> 0]
    /\ m_entry = [s \in {Root} |-> FALSE]
    /\ m_entryState = <<>>
    /\ m_history = <<>>
    /\ m_transitions = [s \in Objects |-> <<>>]
    /\ m_started = [s \in Objects |-> FALSE]
    /\ m_currentState = <<>>
    /\ m_lastVisitedState = <<>>
    /\ m_trigEvent = [s \in Objects |-> Null]
    /\ m_processing = FALSE
    /\ m_postedTransitions = <<>>
    /\ m_pendingTransitions = <<>>
    /\ userCode \in Overrides
    /\ invalidIterator = "end"
    /\ trace = <<>>
    /\ lastCall = [op |-> "none"]
    /\ undefinedBehaviour = FALSE
    /\ calls = 0

\* the machine as a builder call finds it
Topology ==
    [parent |-> m_parentState, regionIndex |-> m_regionIndex, entry |-> m_entry,
     entryState |-> m_entryState, history |-> m_history, last |-> m_lastVisitedState,
     current |-> m_currentState, transitions |-> m_transitions,
     errors |-> <<>>, thrown |-> FALSE]

\* the history settings a setHistory or resetHistory call leaves, in the machine
WithHistory(hl) == [Topology EXCEPT !.history = hl.history, !.last = hl.last]

\* ... and as the call leaves it; the onError calls are what the mocks record
BuiltTopology(b, call) ==
    /\ lastCall.op = "none"
    /\ calls < MaxCalls
    /\ calls' = calls + 1
    /\ m_parentState' = b.parent
    /\ m_regionIndex' = b.regionIndex
    /\ m_entry' = b.entry
    /\ m_entryState' = b.entryState
    /\ m_history' = b.history
    /\ m_transitions' = b.transitions
    /\ m_currentState' = b.current
    /\ m_lastVisitedState' = b.last
    /\ trace' = [i \in 1..Len(b.errors) |->
                    TraceEntry(Machine(TRUE), "onError", b.errors[i], Null, Null)]
    /\ lastCall' = call
    /\ UNCHANGED <<m_started, m_trigEvent, m_processing, m_postedTransitions,
                   m_pendingTransitions, userCode, invalidIterator, undefinedBehaviour>>

BuildCall(op, on, kind, regionIndex, entry, evt, holder, dst) ==
    [op |-> op, on |-> on, evt |-> evt, dst |-> dst, guard |-> TRUE,
     kind |-> kind, regionIndex |-> regionIndex, entry |-> entry, holder |-> holder]

\* the states named in the builder calls: s9 is a state the machine never has
ParentStates == {Root, "s0", "s9"}
ChildStates == {"s0", "s1", "s2"}
TransitionStates == {"s0", "s1", "s2", "s9"}
HolderStates == {Root, "s1", "s9"}

AddState ==
    \E ParentState \in ParentStates, ChildKind \in ChildStates,
       RegionIndex \in {0, 1}, EntryType \in BOOLEAN :
        BuiltTopology(StateMachineAddState(Topology, ParentState, ChildKind, RegionIndex,
                                           EntryType),
                      BuildCall("addState", ParentState, ChildKind, RegionIndex, EntryType,
                                Null, Null, Null))

AddTransition ==
    \E SrcState \in TransitionStates, DstState \in TransitionStates,
       StateType \in HolderStates :
        BuiltTopology(StateMachineAddTransition(Topology, SrcState, "e0", StateType,
                                                TRUE, FALSE, DstState),
                      BuildCall("addTransition", SrcState, Null, 0, FALSE,
                                "e0", StateType, DstState))

SetupOverrides ==
    BuiltTopology(StateMachineSetup(Topology),
                  BuildCall("setup", Root, Null, 0, FALSE, Null, Null, Null))

SetHistoryAnytime ==
    \E state \in {Root, "s0"}, regionIndex \in {-1, 0}, history \in Histories :
        BuiltTopology(WithHistory(StateMachineSetHistory(HistoryFields, state, regionIndex,
                                                         history)),
                      HistoryCall("setHistory", state, regionIndex, history, FALSE))

ResetHistoryAnytime ==
    \E state \in {Root}, regionIndex \in {-1, 0}, recursive \in BOOLEAN :
        BuiltTopology(WithHistory(StateMachineResetHistory(HistoryFields, state, regionIndex,
                                                           recursive)),
                      HistoryCall("resetHistory", state, regionIndex, Null, recursive))

NextBuild ==
    \/ AddState \/ AddTransition \/ SetupOverrides
    \/ SetHistoryAnytime \/ ResetHistoryAnytime
    \/ Start \/ Stop \/ ProcessEvent \/ Observe

SpecBuild == InitBuild /\ [][NextBuild]_vars

----------------------------------------------------------------------------
(* Properties.  Every state of Spec is a quiescent point: no public          *)
(* operation is executing between two actions.                               *)

\* the proper ancestors of a state
RECURSIVE Ancestors(_)
Ancestors(s) ==
    IF m_parentState[s] = Null THEN {}
    ELSE {m_parentState[s]} \cup Ancestors(m_parentState[s])

\* a state of the active configuration: started, like all its ancestors, and the
\* current child of its parent region; these are the states the dispatch reaches
RECURSIVE Active(_)
Active(s) ==
    /\ m_started[s]
    /\ \/ s = Root
       \/ m_currentState[m_parentRegion(s)] = s /\ Active(m_parentState[s])

\* the transition of state s on evt fires when the guards return `guard`
Fires(s, evt, guard) ==
    /\ evt \in DOMAIN m_transitions[s]
    /\ m_transitions[s][evt].guard => guard

\* an ancestor of s handles evt before the dispatch reaches s
Shadowed(s, evt, guard) == \E a \in Ancestors(s) : Fires(a, evt, guard)

\* the callbacks of the call made no request and the call took nothing from the queue
NoRequests(tr) ==
    \A i \in 1..Len(tr) : tr[i].cb \in {"onEntry", "onExit", "guard", "action"}

\* how many times the call invoked callback cb of state st for evt
Count(tr, cb, st, evt) ==
    Cardinality({i \in 1..Len(tr) : tr[i].cb = cb /\ tr[i].st = st /\ tr[i].evt = evt})

\* nothing is queued
QueuesEmpty == m_postedTransitions = <<>> /\ m_pendingTransitions = <<>>

\* this step is a processEvent call on a machine with empty queues whose callbacks
\* make no request
PlainProcessEvent ==
    /\ lastCall'.op = "processEvent"
    /\ QueuesEmpty
    /\ NoRequests(trace')

\* C1: at every quiescent point, each region of every started state has no current
\* child, or its current child is one of its direct children and is started.
C1_ActiveConfiguration ==
    \A s \in States :
        m_started[s] =>
            \A i \in 1..Len(m_regions(s)) :
                LET current == m_currentState[m_regions(s)[i]]
                IN  \/ current = Null
                    \/ current \in m_children(m_regions(s)[i]) /\ m_started[current]

\* a composite state is active with a child other than the entry state current in
\* each of its two regions
C1_Witness ==
    /\ lastCall.op = "processEvent"
    /\ m_started["s0"]
    /\ m_currentState[<<"s0", 0>>] = "s3" /\ m_started["s3"]
    /\ m_currentState[<<"s0", 1>>] = "s5" /\ m_started["s5"]

\* C2: at every quiescent point every started state other than the machine has a
\* started parent and is the current child of its parent region (the started states
\* form a connected subtree and no region has two started children).
C2_ConnectedSubtree ==
    \A s \in States \ {Root} :
        m_started[s] =>
            /\ m_started[m_parentState[s]]
            /\ m_currentState[m_parentRegion(s)] = s

\* transit<s3>() has been called on s1 while s1 was not active
C2_Witness ==
    /\ lastCall.op = "transit" /\ lastCall.on = "s1" /\ lastCall.dst = "s3"
    /\ m_started["s3"] /\ m_started["s2"]

\* C3: when processEvent(E) is called with S active, S --E--> D an external transition
\* whose guard is absent or returns true, no ancestor of S firing on E, and no request
\* made by the callbacks, then on return D and all its ancestors are started, S is not
\* started, and every state on the path from the common ancestor down to D is the
\* current child of its region.
C3_ExternalTransition ==
    [][PlainProcessEvent =>
        \A S \in States :
            LET E == lastCall'.evt
                g == lastCall'.guard
            IN  (/\ Active(S) /\ Fires(S, E, g) /\ ~Shadowed(S, E, g)
                 /\ m_transitions[S][E].data # nullopt)
                =>
                LET D == m_transitions[S][E].dst
                    ca == m_transitions[S][E].data.commonAncestor
                IN  /\ m_started'[D]
                    /\ \A a \in Ancestors(D) : m_started'[a]
                    /\ ~m_started'[S]
                    /\ \A x \in ({D} \cup Ancestors(D)) \ ({ca} \cup Ancestors(ca)) :
                           m_currentState'[m_parentRegion(x)] = x
    ]_vars

\* s1 --e1--> s3 has been taken: s1 exited, s0 and its two regions entered, s3 current
C3_Witness ==
    /\ lastCall.op = "processEvent" /\ lastCall.evt = "e1"
    /\ NoRequests(trace) /\ QueuesEmpty
    /\ Count(trace, "onExit", "s1", "e1") = 1
    /\ Count(trace, "onEntry", "s3", "e1") = 1
    /\ m_started["s3"] /\ m_started["s0"] /\ ~m_started["s1"]
    /\ m_currentState[<<"sm", 0>>] = "s0" /\ m_currentState[<<"s0", 0>>] = "s3"

\* C4: when the guard of the transition the dispatch reaches returns false, the guard
\* is evaluated once, the action is not invoked, and (no other transition being
\* matched) no state is exited or entered and the configuration is unchanged; when it
\* returns true, the guard is evaluated exactly once, the action (if any) is invoked
\* exactly once and the transition is taken.
C4_Guard ==
    [][PlainProcessEvent =>
        \A S \in States :
            LET E == lastCall'.evt
                g == lastCall'.guard
            IN  (/\ Active(S) /\ E \in DOMAIN m_transitions[S] /\ ~Shadowed(S, E, g)
                 /\ m_transitions[S][E].guard)
                =>
                LET t == m_transitions[S][E]
                IN  /\ Count(trace', "guard", t.holder, E) = 1
                    /\ g => /\ t.action => Count(trace', "action", t.holder, E) = 1
                            /\ IF t.data # nullopt
                               THEN m_started'[t.dst] /\ ~m_started'[S]
                               ELSE m_started'[S]
                    /\ ~g => /\ Count(trace', "action", t.holder, E) = 0
                             /\ (\A X \in States :
                                    Active(X) /\ E \in DOMAIN m_transitions[X]
                                        => m_transitions[X][E].guard)
                                => /\ \A i \in 1..Len(trace') : trace'[i].cb = "guard"
                                   /\ m_started' = m_started
                                   /\ m_currentState' = m_currentState
                                   /\ m_lastVisitedState' = m_lastVisitedState
    ]_vars

\* the guard of s2 --e0--> s3 returned false: nothing but the guard ran and s2 is
\* still the current child
C4_Witness ==
    /\ lastCall.op = "processEvent" /\ lastCall.evt = "e0" /\ ~lastCall.guard
    /\ Len(trace) = 1 /\ trace[1].cb = "guard" /\ trace[1].st = "s2"
    /\ QueuesEmpty
    /\ m_started["s2"] /\ m_currentState[<<"s0", 0>>] = "s2" /\ ~m_started["s3"]

\* C5 (as the code has it): when an active state A and an active descendant X both
\* have a transition on E and A's transition fires (no ancestor of A firing before),
\* processEvent(E) takes A's transition and X's guard and action are not invoked: the
\* ancestor shadows the descendant, the search is top-down from the machine.
C5_AncestorShadows ==
    [][PlainProcessEvent =>
        \A A \in States, X \in States :
            LET E == lastCall'.evt
                g == lastCall'.guard
            IN  (/\ A \in Ancestors(X) /\ Active(X)
                 /\ E \in DOMAIN m_transitions[X]
                 /\ Fires(A, E, g) /\ ~Shadowed(A, E, g))
                =>
                /\ Count(trace', "guard", m_transitions[X][E].holder, E) = 0
                /\ Count(trace', "action", m_transitions[X][E].holder, E) = 0
                /\ m_transitions[A][E].action
                       => Count(trace', "action", m_transitions[A][E].holder, E) = 1
                /\ m_transitions[A][E].data # nullopt
                       => m_started'[m_transitions[A][E].dst] /\ ~m_started'[A]
    ]_vars

\* C5 as claimed: in that situation processEvent(E) fires the descendant's
\* transition (the action of X runs once and its destination is started).
C5_DescendantShadows ==
    [][PlainProcessEvent =>
        \A A \in States, X \in States :
            LET E == lastCall'.evt
                g == lastCall'.guard
            IN  (/\ A \in Ancestors(X) /\ Active(X)
                 /\ Fires(X, E, g)
                 /\ Fires(A, E, g) /\ ~Shadowed(A, E, g))
                =>
                /\ m_transitions[X][E].action
                       => Count(trace', "action", m_transitions[X][E].holder, E) = 1
                /\ m_started'[m_transitions[X][E].dst]
    ]_vars

\* e1 was processed with s0 and its descendant s3 active, both having a transition
\* on e1: the action of s0 ran, s3 was exited and s1 is active
C5_Witness ==
    /\ lastCall.op = "processEvent" /\ lastCall.evt = "e1"
    /\ NoRequests(trace) /\ QueuesEmpty
    /\ Count(trace, "action", "s0", "e1") = 1
    /\ Count(trace, "onExit", "s3", "e1") = 1
    /\ Count(trace, "action", "s3", "e1") = 0
    /\ m_started["s1"] /\ ~m_started["s0"] /\ ~m_started["s2"]

\* C6: when the only transitions that fire on E are internal (source = destination),
\* processEvent(E) invokes guard and action only: no onExit, no onEntry, and started,
\* current and last visited are unchanged.
C6_InternalTransition ==
    [][PlainProcessEvent =>
        LET E == lastCall'.evt
            g == lastCall'.guard
            firing == {S \in States : Active(S) /\ Fires(S, E, g) /\ ~Shadowed(S, E, g)}
        IN  (firing # {} /\ \A S \in firing : m_transitions[S][E].dst = S)
            =>
            /\ \A i \in 1..Len(trace') : trace'[i].cb \in {"guard", "action"}
            /\ \A S \in firing :
                   m_transitions[S][E].action
                       => Count(trace', "action", m_transitions[S][E].holder, E) = 1
            /\ m_started' = m_started
            /\ m_currentState' = m_currentState
            /\ m_lastVisitedState' = m_lastVisitedState
    ]_vars

\* the internal transition of s1 on e2 has run: guard then action, s1 still active
C6_Witness ==
    /\ lastCall.op = "processEvent" /\ lastCall.evt = "e2" /\ lastCall.guard
    /\ Len(trace) = 2 /\ trace[1].cb = "guard" /\ trace[2].cb = "action"
    /\ trace[2].st = "s1"
    /\ QueuesEmpty
    /\ m_started["s1"] /\ m_currentState[<<"sm", 0>>] = "s1"

\* the entries of the trace made by callback or request cb
Entries(tr, cb) == SelectSeq(tr, LAMBDA e : e.cb = cb)

\* the positions in the trace of the entries made by cb
Positions(tr, cb) == SelectSeq([i \in 1..Len(tr) |-> i], LAMBDA i : tr[i].cb = cb)

\* C7: the events posted with postEvent from callbacks during one processEvent are
\* not dispatched by the postEvent call; each is dispatched later by the drain loop
\* with no callback running (the transition that posted it has completed), and
\* they are dispatched in the order in which they were posted.
C7_PostedFifo ==
    lastCall.op = "processEvent" =>
        LET posts == Positions(trace, "post")
            dispatched == Positions(trace, "dispatch")
            before == Len(dispatched) - Len(posts)
        IN  /\ \A i \in 1..Len(posts) : trace[posts[i]].queued /\ ~trace[posts[i]].ran
            /\ \A i \in 1..Len(dispatched) : trace[dispatched[i]].depth = 0
            /\ before >= 0
            /\ \A i \in 1..Len(posts) :
                   /\ trace[dispatched[before + i]].evt = trace[posts[i]].evt
                   /\ dispatched[before + i] > posts[i]

\* onExit of s2 posted e1 then e0 in the middle of a transition; both were dispatched
\* after it, e1 first
C7_Witness ==
    /\ lastCall.op = "processEvent"
    /\ Site("onExit", "s2", Null) \in DOMAIN userCode
    /\ Len(Entries(trace, "post")) = 2
    /\ Entries(trace, "post")[1].evt = "e1" /\ Entries(trace, "post")[2].evt = "e0"
    /\ Len(Entries(trace, "dispatch")) = 2
    /\ Entries(trace, "dispatch")[1].evt = "e1" /\ Entries(trace, "dispatch")[2].evt = "e0"

\* the TransitionData that transit<dst>() called on state `this` computes
TransitData(this, dst) ==
    IF this = Root
    THEN getTransitionDataTop([started |-> m_started, current |-> m_currentState], dst, dst)
    ELSE getTransitionData(dst, this, dst)

\* C8: a transit<D>() made from a callback during processing runs no callback and
\* changes nothing when it is called, and is executed later from the queue with no
\* callback running; a transit<D>() called from outside on a started machine, D not
\* started and its TransitionData resolving, has on return started D and its
\* ancestors and exited the child that was current in each region on the path to D.
C8_Transit ==
    [][/\ lastCall'.op = "processEvent" =>
            \A i \in 1..Len(trace') :
                trace'[i].cb = "transit" /\ trace'[i].processing =>
                    /\ ~trace'[i].ran
                    /\ trace'[i].queued =>
                           \E j \in (i + 1)..Len(trace') :
                               /\ trace'[j].cb = "dispatchTransit"
                               /\ trace'[j].dst = trace'[i].dst
                               /\ trace'[j].depth = 0
       /\ (/\ lastCall'.op = "transit"
           /\ m_started[Root]
           /\ ~m_started[lastCall'.dst]
           /\ TransitData(lastCall'.on, lastCall'.dst) # nullopt)
          =>
          LET D == lastCall'.dst
          IN  /\ m_started'[D]
              /\ \A a \in Ancestors(D) : m_started'[a]
              /\ \A x \in ({D} \cup Ancestors(D)) \ {Root} :
                     LET c == m_currentState[m_parentRegion(x)]
                     IN  c # Null /\ c # x => ~m_started'[c]
    ]_vars

\* transit<s5>() has been called on s1 while s0 was active: s5 is started and s4,
\* which was current in its region, has not been exited
C8_Witness ==
    /\ lastCall.op = "transit" /\ lastCall.on = "s1" /\ lastCall.dst = "s5"
    /\ m_started["s5"] /\ m_started["s4"]
    /\ Count(trace, "onExit", "s4", Null) = 0

\* C9: a processEvent called from a callback of a running processEvent runs no
\* callback itself (the event is queued), and every callback of the outermost call
\* sees the processing flag set.
C9_NestedProcessEvent ==
    lastCall.op = "processEvent" =>
        \A i \in 1..Len(trace) :
            /\ trace[i].processing
            /\ trace[i].cb = "process" => ~trace[i].ran /\ trace[i].queued

\* a callback called processEvent, which ran callbacks before returning, and a later
\* callback of the outer call saw the processing flag cleared
C9_Witness ==
    /\ lastCall.op = "processEvent"
    /\ \E i \in 1..Len(trace) :
           /\ trace[i].cb = "process" /\ trace[i].ran /\ trace[i].processing
           /\ \E j \in (i + 1)..Len(trace) :
                  /\ trace[j].depth = 0 /\ ~trace[j].processing
                  /\ trace[j].cb \in {"onEntry", "onExit"}

\* C10: every postEvent and deferEvent made from a callback is queued, and no
\* postEvent, deferEvent or transit made from a callback runs a callback before it
\* returns: nothing is dispatched while the cascade that called it is in progress,
\* the cascades of start() and stop() included.
C10_RequestsQueued ==
    \A i \in 1..Len(trace) :
        /\ trace[i].cb \in {"post", "defer", "transit"} => ~trace[i].ran
        /\ trace[i].cb \in {"post", "defer"} => trace[i].queued

\* onEntry of s2, run by start(), made a request that ran callbacks before it
\* returned, and the entry cascade of start() went on afterwards
C10_Witness ==
    /\ lastCall.op = "start"
    /\ \E i \in 1..Len(trace) :
           /\ trace[i].cb \in {"post", "transit"} /\ trace[i].ran /\ ~trace[i].processing
           /\ \E j \in (i + 1)..Len(trace) :
                  trace[j].cb = "onEntry" /\ trace[j].depth = 0

\* the callbacks the mocks saw, in order: which callback, of which state, for which event
Callbacks(tr) ==
    LET cbs == SelectSeq(tr, LAMBDA e : e.cb \in {"onEntry", "onExit", "guard", "action"})
    IN  [i \in 1..Len(cbs) |-> <<cbs[i].cb, cbs[i].st, cbs[i].evt>>]

\* everything that is queued, oldest first: the deque, then the queue behind it
Queued(pending, posted) == pending \o posted

\* this step left the machine as the call that returned r would have left it
SameOutcome(r) ==
    /\ Callbacks(r.trace) = Callbacks(trace')
    /\ r.started = m_started'
    /\ r.current = m_currentState'
    /\ Queued(r.pending, r.posted) = Queued(m_pendingTransitions', m_postedTransitions')

\* C11: postEvent(e) called on the started machine from outside any processing does
\* what processEvent(e) does in the same state: the same callbacks in the same order,
\* the same active configuration and the same queue contents afterwards.
C11_PostEquivalent ==
    [][(lastCall'.op = "postEvent" /\ lastCall'.on = Root /\ m_started[Root])
          => SameOutcome(processEvent(Machine(lastCall'.guard), lastCall'.evt))
    ]_vars

\* postEvent(e2) was called on the machine with s1 active; the action of s1 posted e1,
\* which is still queued when the call has returned, and s1 is still active
C11_Witness ==
    /\ lastCall.op = "postEvent" /\ lastCall.on = Root /\ lastCall.evt = "e2"
    /\ Len(Entries(trace, "post")) = 1 /\ Entries(trace, "post")[1].queued
    /\ Len(Entries(trace, "dispatch")) = 0
    /\ m_postedTransitions = <<PostedTransition("e1", nullopt, FALSE)>>
    /\ m_started["s1"]

\* C12: when a top-level processEvent, postEvent, deferEvent or transit call has
\* returned, every event posted and every transit requested by the callbacks of the
\* call has been dispatched, and nothing but deferred events is left queued.
C12_RunToCompletion ==
    lastCall.op \in {"processEvent", "postEvent", "deferEvent", "transit"} =>
        /\ \A i \in 1..Len(m_postedTransitions) : m_postedTransitions[i].m_deferred
        /\ \A i \in 1..Len(m_pendingTransitions) : m_pendingTransitions[i].m_deferred
        /\ \A i \in 1..Len(trace) :
               /\ trace[i].cb = "post" /\ trace[i].queued =>
                      \E j \in (i + 1)..Len(trace) :
                          trace[j].cb = "dispatch" /\ trace[j].evt = trace[i].evt
               /\ trace[i].cb = "transit" /\ trace[i].queued =>
                      \E j \in (i + 1)..Len(trace) :
                          trace[j].cb = "dispatchTransit" /\ trace[j].dst = trace[i].dst

\* deferEvent(e2) was called on the machine with s1 active and the guard true; the
\* action of s1 requested a transit to s3, which is still queued after the call
C12_Witness ==
    /\ lastCall.op = "deferEvent" /\ lastCall.on = Root /\ lastCall.evt = "e2"
    /\ Len(Entries(trace, "transit")) = 1 /\ Entries(trace, "transit")[1].queued
    /\ Len(Entries(trace, "dispatchTransit")) = 0
    /\ Len(m_postedTransitions) = 1 /\ m_postedTransitions[1].m_transition # nullopt
    /\ m_started["s1"] /\ ~m_started["s3"]

\* how many deferred events of kind e are in the queue q
CountDeferred(q, e) ==
    Cardinality({i \in 1..Len(q) : q[i].m_deferred /\ q[i].m_evt = e})

\* the item taken from the deque at position i of the trace fired a transition: a
\* state was exited or entered or an action ran before the loop that took the item
\* took the next one or returned (what a callback of that transition runs is deeper)
Fired(tr, i) ==
    \E j \in (i + 1)..Len(tr) :
        /\ tr[j].cb \in {"action", "onEntry", "onExit"}
        /\ tr[j].depth = tr[i].depth
        /\ \A k \in (i + 1)..j :
               /\ tr[k].depth >= tr[i].depth
               /\ tr[k].cb \in {"dispatch", "dispatchDeferred", "dispatchTransit"}
                      => tr[k].depth > tr[i].depth

\* how many of the deferred events of kind e taken from the deque fired a transition
CountFired(tr, e) ==
    Cardinality({i \in 1..Len(tr) :
                    tr[i].cb = "dispatchDeferred" /\ tr[i].evt = e /\ Fired(tr, i)})

\* how many events of kind e the callbacks of the call put on the queue as deferred
CountDeferRequests(tr, e) ==
    Cardinality({i \in 1..Len(tr) : tr[i].cb = "defer" /\ tr[i].evt = e /\ tr[i].queued})

\* the state the call was made on is the machine or a state of the active configuration
OnActive == lastCall'.on = Root \/ Active(lastCall'.on)

\* no callback of the call called processEvent (see C9)
NoNestedProcessEvent(tr) == \A i \in 1..Len(tr) : tr[i].cb # "process"

\* C13: deferred events are neither lost nor duplicated.  Over any public call other
\* than deferEvent whose callbacks do not call processEvent, the deferred events of each kind that are queued afterwards are
\* those queued before, plus those the callbacks deferred, minus one for each
\* dispatch of such an event that fired a transition; a dispatch that fires nothing
\* leaves the event queued.  deferEvent(e) on the machine or on an active state while
\* no active state has a transition firing on e runs no action, exits and enters
\* nothing and appends e to the queue as deferred.
C13_DeferredSurvival ==
    [][/\ (lastCall'.op \notin {"none", "deferEvent"} /\ NoNestedProcessEvent(trace')) =>
              \A e \in EventKinds :
                  CountDeferred(Queued(m_pendingTransitions', m_postedTransitions'), e)
                      = CountDeferred(Queued(m_pendingTransitions, m_postedTransitions), e)
                        + CountDeferRequests(trace', e) - CountFired(trace', e)
       /\ (/\ lastCall'.op = "deferEvent" /\ m_started[Root] /\ OnActive
           /\ \A S \in States : Active(S) => ~Fires(S, lastCall'.evt, lastCall'.guard))
          =>
          /\ \A i \in 1..Len(trace') : trace'[i].cb = "guard"
          /\ m_started' = m_started /\ m_currentState' = m_currentState
          /\ Queued(m_pendingTransitions', m_postedTransitions')
                 = Queued(m_pendingTransitions, m_postedTransitions)
                   \o <<PostedTransition(lastCall'.evt, nullopt, TRUE)>>
    ]_vars

\* e0 was deferred while s1 was active; processEvent(e1) then took s1 --e1--> s3,
\* which entered s4, and the drain dispatched the deferred e0 once: s4 --e0--> s5
\* fired and the queue is empty
C13_Witness ==
    /\ lastCall.op = "processEvent" /\ lastCall.evt = "e1"
    /\ userCode = <<>>
    /\ Len(Entries(trace, "dispatchDeferred")) = 1
    /\ Entries(trace, "dispatchDeferred")[1].evt = "e0"
    /\ Count(trace, "onExit", "s4", "e0") = 1
    /\ Count(trace, "onEntry", "s5", "e0") = 1
    /\ QueuesEmpty
    /\ m_started["s5"] /\ m_started["s3"]

\* C14: when processEvent has returned, no deferred event is left queued while a state
\* of the active configuration has a transition on that event kind that would fire
\* (no guard, or the guard returning true).
C14_DeferredProcessed ==
    lastCall.op = "processEvent" =>
        \A i \in 1..Len(Queued(m_pendingTransitions, m_postedTransitions)) :
            LET item == Queued(m_pendingTransitions, m_postedTransitions)[i]
            IN  item.m_deferred =>
                    \A S \in States : Active(S) => ~Fires(S, item.m_evt, lastCall.guard)

\* e0 was deferred while s1 was active; processEvent(e2) ran the action of s1, which
\* posted e1; the drain tried the deferred e0 first (s1 has no transition on e0), then
\* dispatched e1, which entered s3 and s4; the call returned with e0 still deferred
\* although s4 --e0--> s5 has no guard
C14_Witness ==
    /\ lastCall.op = "processEvent" /\ lastCall.evt = "e2"
    /\ Len(Entries(trace, "dispatchDeferred")) = 1
    /\ Entries(trace, "dispatchDeferred")[1].evt = "e0"
    /\ Len(Entries(trace, "dispatch")) = 1
    /\ Positions(trace, "dispatchDeferred")[1] < Positions(trace, "dispatch")[1]
    /\ NoNestedProcessEvent(trace)
    /\ m_pendingTransitions = <<PostedTransition("e0", nullopt, TRUE)>>
    /\ m_postedTransitions = <<>>
    /\ Active("s4") /\ Fires("s4", "e0", FALSE)

\* the regions above region r: the region its parent state is in, and so on upwards
RECURSIVE RegionAncestors(_)
RegionAncestors(r) ==
    IF m_parentState[r[1]] = Null THEN {}
    ELSE {m_parentRegion(r[1])} \cup RegionAncestors(m_parentRegion(r[1]))

\* the regions below region r
RegionDescendants(r) == {x \in Regions : r \in RegionAncestors(x)}

\* C17: whatever setHistory, resetHistory and setup calls have been made, no two
\* regions of which one is above the other both have Deep history.
C17_DeepExclusive ==
    \A r \in Regions :
        m_history[r] = "Deep" => \A a \in RegionAncestors(r) : m_history[a] # "Deep"

\* Deep was requested for the region of the machine while region 1 of s0, below it,
\* had Deep history: the region of the machine did not become Deep
C17_Witness ==
    /\ lastCall.op = "setHistory" /\ lastCall.on = Root /\ lastCall.history = "Deep"
    /\ m_history[<<"s0", 1>>] = "Deep"
    /\ m_history[<<Root, 0>>] = Null

\* C18: whatever setHistory, resetHistory and setup calls have been made, no region
\* with Shallow history has a region with Deep history above it.
C18_NoShallowUnderDeep ==
    \A r \in Regions :
        m_history[r] = "Shallow" => \A a \in RegionAncestors(r) : m_history[a] # "Deep"

\* Deep was set on the region of the machine while region 0 of s0 had Shallow history
C18_Witness ==
    /\ lastCall.op = "setHistory" /\ lastCall.on = Root /\ lastCall.history = "Deep"
    /\ m_history[<<Root, 0>>] = "Deep"
    /\ m_history[<<"s0", 0>>] = "Shallow"

\* the regions a setHistory call is made on
TargetRegions(call) ==
    {r \in Regions : r[1] = call.on /\ (call.regionIndex = -1 \/ r[2] = call.regionIndex)}

\* the call must be rejected for region r: Deep with a Deep region above or below r,
\* Shallow with a Deep region above r
Conflict(call, r) ==
    \/ /\ call.history = "Deep"
       /\ \E x \in RegionAncestors(r) \cup RegionDescendants(r) : m_history[x] = "Deep"
    \/ /\ call.history = "Shallow"
       /\ \E x \in RegionAncestors(r) : m_history[x] = "Deep"

\* C19: a setHistory call changes the history of no region it is not made on (none
\* at all for an unknown state or region index), and of no region for which it must
\* be rejected; a call rejected for every region it is made on changes nothing.
C19_RejectedUnchanged ==
    [][lastCall'.op = "setHistory" =>
          /\ \A r \in Regions \ TargetRegions(lastCall') : m_history'[r] = m_history[r]
          /\ \A r \in TargetRegions(lastCall') :
                 Conflict(lastCall', r) => m_history'[r] = m_history[r]
          /\ (\A r \in TargetRegions(lastCall') : Conflict(lastCall', r))
                 => m_history' = m_history
    ]_vars

\* Deep was requested for region 0 of s0 while the region of the machine, above it,
\* had Deep history: region 0 of s0 still has no history
C19_Witness ==
    /\ lastCall.op = "setHistory" /\ lastCall.on = "s0" /\ lastCall.regionIndex = 0
    /\ lastCall.history = "Deep"
    /\ m_history[<<Root, 0>>] = "Deep"
    /\ m_history[<<"s0", 0>>] = Null /\ m_history[<<"s0", 1>>] = Null

\* the states inside region r: its children and what they contain
Inside(r) == {x \in States : \E c \in m_children(r) : contains(c, x)}

\* the sources of the transitions that processEvent(evt) fires when the guards return
\* `guard`
FiringSources(evt, guard) ==
    {S \in States : Active(S) /\ Fires(S, evt, guard) /\ ~Shadowed(S, evt, guard)}

\* the explicit destinations of the call: those of the transitions it fires, or the
\* destination of the transit
Targets(call) ==
    CASE call.op = "processEvent" ->
             {m_transitions[S][call.evt].dst : S \in FiringSources(call.evt, call.guard)}
      [] call.op = "transit" -> {call.dst}
      [] OTHER -> {}

\* this step is a start, a processEvent or a transit, made with nothing queued
EnteringCall ==
    /\ lastCall'.op \in {"start", "processEvent", "transit"}
    /\ QueuesEmpty

\* this step is a stop, a processEvent or a transit, made with nothing queued
ExitingCall ==
    /\ lastCall'.op \in {"stop", "processEvent", "transit"}
    /\ QueuesEmpty

\* state P was active before the call and the call exited it once and did not enter
\* it again
ExitedOnce(P) ==
    /\ Active(P) /\ ~m_started'[P]
    /\ Cardinality({i \in 1..Len(trace') : trace'[i].cb = "onExit" /\ trace'[i].st = P}) = 1
    /\ Cardinality({i \in 1..Len(trace') : trace'[i].cb = "onEntry" /\ trace'[i].st = P}) = 0

\* state P was not started before the call and the call entered it once
EnteredOnce(P) ==
    /\ ~m_started[P]
    /\ Cardinality({i \in 1..Len(trace') : trace'[i].cb = "onEntry" /\ trace'[i].st = P}) = 1

\* region r is entered by this step with no explicit destination inside it, after
\* an earlier visit
ReEntered(r) ==
    /\ EnteredOnce(r[1])
    /\ m_lastVisitedState[r] # Null
    /\ Targets(lastCall') \cap Inside(r) = {}

\* C15: when a state is entered again with no explicit destination inside its region
\* R, and R has Shallow history, the last visited child of R is current again; a
\* region entered in the same way that has no history of its own and no Deep region
\* above it (a region below the restored child in particular) starts from its entry
\* child, whatever its last visited child and whatever region has Shallow history.
C15_ShallowHistory ==
    [][EnteringCall =>
          \A R \in Regions :
              ReEntered(R) =>
                  /\ m_history[R] = "Shallow" =>
                         /\ m_currentState'[R] = m_lastVisitedState[R]
                         /\ \A R2 \in Regions :
                                (/\ R2[1] = m_lastVisitedState[R]
                                 /\ m_history[R2] = Null
                                 /\ \A a \in RegionAncestors(R2) : m_history[a] # "Deep")
                                => m_currentState'[R2] = m_entryState[R2]
                  /\ (/\ m_history[R] = Null
                      /\ \A a \in RegionAncestors(R) : m_history[a] # "Deep")
                     => m_currentState'[R] = m_entryState[R]
    ]_vars

\* the region of the machine has Shallow history; s0 was left with s3 and s5 current,
\* the machine was stopped and started again: s0 is current again and its regions
\* started from their entry children s2 and s4
C15_Witness ==
    /\ lastCall.op = "start"
    /\ m_history[<<Root, 0>>] = "Shallow"
    /\ m_history[<<"s0", 0>>] = Null /\ m_history[<<"s0", 1>>] = Null
    /\ m_lastVisitedState[<<"s0", 0>>] = "s3" /\ m_lastVisitedState[<<"s0", 1>>] = "s5"
    /\ m_currentState[<<Root, 0>>] = "s0"
    /\ m_currentState[<<"s0", 0>>] = "s2" /\ m_currentState[<<"s0", 1>>] = "s4"

\* C16: when an active state is exited, the last visited child of each of its
\* regions is the child that was current; when a region has Deep history or lies
\* below a region with Deep history, and its state is entered again with no explicit
\* destination inside the region, that last visited child is current and started
\* again.
C16_DeepHistory ==
    [][/\ ExitingCall =>
              \A P \in States :
                  ExitedOnce(P) =>
                      \A i \in 1..Len(m_regions(P)) :
                          m_lastVisitedState'[m_regions(P)[i]] = m_currentState[m_regions(P)[i]]
       /\ EnteringCall =>
              \A R \in Regions :
                  (/\ ReEntered(R)
                   /\ \E d \in {R} \cup RegionAncestors(R) : m_history[d] = "Deep")
                  => /\ m_currentState'[R] = m_lastVisitedState[R]
                     /\ m_started'[m_lastVisitedState[R]]
    ]_vars

\* the region of the machine has Deep history; s0 was left for s1 with s3 and s5
\* current; s1 --e1--> s3 entered s0 again: region 1 of s0, which the transition
\* does not name, has s5 current again
C16_Witness ==
    /\ lastCall.op = "processEvent" /\ lastCall.evt = "e1"
    /\ m_history[<<Root, 0>>] = "Deep"
    /\ Count(trace, "onExit", "s1", "e1") = 1
    /\ Count(trace, "onEntry", "s5", "e1") = 1
    /\ m_currentState[<<"s0", 0>>] = "s3" /\ m_currentState[<<"s0", 1>>] = "s5"

\* the source of the transition the call takes towards destination D
SourcesTo(call, D) ==
    CASE call.op = "processEvent" ->
             {S \in FiringSources(call.evt, call.guard) : m_transitions[S][call.evt].dst = D}
      [] call.op = "transit" ->
             {TransitData(call.on, call.dst).src} \ {Null}
      [] OTHER -> {}

\* C20: when a processEvent or a transit takes a transition whose
\* source and destination are both inside region A of a state, and takes no
\* transition with its source inside the sibling region B of the same state, then
\* the current child and the last visited child of B and the started flag of every
\* state inside B are unchanged.
C20_OrthogonalIndependence ==
    [][(/\ lastCall'.op \in {"processEvent", "transit"}
        /\ m_started[Root] /\ QueuesEmpty)
       =>
       \A A \in Regions, B \in Regions :
           (/\ A # B /\ A[1] = B[1]
            /\ \E D \in Targets(lastCall') \cap Inside(A) :
                   SourcesTo(lastCall', D) \cap Inside(A) # {}
            /\ \A D \in Targets(lastCall') : SourcesTo(lastCall', D) \cap Inside(B) = {})
           => /\ m_currentState'[B] = m_currentState[B]
              /\ m_lastVisitedState'[B] = m_lastVisitedState[B]
              /\ \A x \in Inside(B) : m_started'[x] = m_started[x]
    ]_vars

\* s5 --e2--> s4 was taken in region 1 of s0 while s3 was current in region 0, after
\* an earlier visit of s2: s3 is still current and s2 still the last visited child
C20_Witness ==
    /\ lastCall.op = "processEvent" /\ lastCall.evt = "e2"
    /\ Count(trace, "onExit", "s5", "e2") = 1
    /\ Count(trace, "onEntry", "s4", "e2") = 1
    /\ Len(trace) = 3
    /\ m_currentState[<<"s0", 1>>] = "s4"
    /\ m_currentState[<<"s0", 0>>] = "s3" /\ m_started["s3"] /\ ~m_started["s2"]

\* the first and the last position in the trace of a callback of state st
FirstOf(tr, st) == CHOOSE i \in 1..Len(tr) : tr[i].st = st /\ \A j \in 1..(i - 1) : tr[j].st # st
LastOf(tr, st) == CHOOSE i \in 1..Len(tr) : tr[i].st = st /\ \A j \in (i + 1)..Len(tr) : tr[j].st # st

\* C21: when the current children of region 0 and of region 1 of an active state both
\* have an external transition on E that fires (guard absent or true, no ancestor
\* firing on E before), one processEvent(E) whose callbacks make no request takes both
\* transitions: both sources are exited once, both destinations entered once, each
\* destination is the current child of its own region, and every callback of the
\* transition of region 0 runs before the first callback of the transition of region 1.
C21_OrthogonalBothFire ==
    [][PlainProcessEvent =>
        \A P \in States :
            (<<P, 0>> \in Regions /\ <<P, 1>> \in Regions /\ Active(P)) =>
                LET E == lastCall'.evt
                    g == lastCall'.guard
                    S0 == m_currentState[<<P, 0>>]
                    S1 == m_currentState[<<P, 1>>]
                IN  (/\ S0 # Null /\ S1 # Null
                     /\ Fires(S0, E, g) /\ Fires(S1, E, g) /\ ~Shadowed(S0, E, g)
                     /\ m_transitions[S0][E].data # nullopt
                     /\ m_transitions[S1][E].data # nullopt)
                    =>
                    LET D0 == m_transitions[S0][E].dst
                        D1 == m_transitions[S1][E].dst
                    IN  /\ Count(trace', "onExit", S0, E) = 1
                        /\ Count(trace', "onExit", S1, E) = 1
                        /\ Count(trace', "onEntry", D0, E) = 1
                        /\ Count(trace', "onEntry", D1, E) = 1
                        /\ ~m_started'[S0] /\ ~m_started'[S1]
                        /\ m_started'[D0] /\ m_started'[D1]
                        /\ m_currentState'[<<P, 0>>] = D0
                        /\ m_currentState'[<<P, 1>>] = D1
                        /\ LastOf(trace', D0) < FirstOf(trace', S1)
                        /\ LastOf(trace', S0) < FirstOf(trace', S1)
    ]_vars

\* e0 was processed with s2 and s4 current in the two regions of s0: s2 --e0--> s3 ran
\* first (guard, action, exit, entry), then s4 --e0--> s5
C21_Witness ==
    /\ lastCall.op = "processEvent" /\ lastCall.evt = "e0" /\ lastCall.guard
    /\ NoRequests(trace) /\ QueuesEmpty
    /\ Len(trace) = 6
    /\ trace[1].cb = "guard" /\ trace[1].st = "s2"
    /\ trace[3].cb = "onExit" /\ trace[3].st = "s2"
    /\ trace[4].cb = "onEntry" /\ trace[4].st = "s3"
    /\ trace[5].cb = "onExit" /\ trace[5].st = "s4"
    /\ trace[6].cb = "onEntry" /\ trace[6].st = "s5"
    /\ m_currentState[<<"s0", 0>>] = "s3" /\ m_currentState[<<"s0", 1>>] = "s5"

\* C23: stop() on a started machine, its callbacks making no request, invokes onExit
\* exactly once for every state that was started, the onExit of a state after the
\* onExit of each of its started descendants and the machine's last; afterwards no
\* state is started and no region has a current child.
C23_StopSymmetry ==
    [][(lastCall'.op = "stop" /\ m_started[Root] /\ NoRequests(trace')) =>
        /\ \A s \in States :
               Count(trace', "onExit", s, Null) = IF m_started[s] THEN 1 ELSE 0
        /\ \A i \in 1..Len(trace') : trace'[i].cb = "onExit"
        /\ \A s \in States, d \in States :
               (m_started[s] /\ m_started[d] /\ s \in Ancestors(d))
                   => LastOf(trace', d) < FirstOf(trace', s)
        /\ trace'[Len(trace')].st = Root
        /\ \A s \in States : ~m_started'[s]
        /\ \A r \in Regions : m_currentState'[r] = Null
    ]_vars

\* stop() was called with s0, s3 and s5 active: s3, s5, s0 and the machine were exited
\* in that order
C23_Witness ==
    /\ lastCall.op = "stop"
    /\ Len(trace) = 4
    /\ trace[1].st = "s3" /\ trace[2].st = "s5" /\ trace[3].st = "s0" /\ trace[4].st = Root
    /\ \A i \in 1..4 : trace[i].cb = "onExit"
    /\ \A s \in States : ~m_started[s]

\* the state s and, recursively, the entry state of every region of s
RECURSIVE EntryClosure(_)
EntryClosure(s) ==
    {s} \cup UNION { IF m_entryState[m_regions(s)[i]] = Null THEN {}
                     ELSE EntryClosure(m_entryState[m_regions(s)[i]]) :
                     i \in 1..Len(m_regions(s)) }

\* C22: start() on a machine none of whose states is started and none of whose
\* regions has history starts exactly the machine and, recursively, the entry state of
\* every region of every started state; each region of a started state has its entry
\* state as current child, and a region without an entry state has no current child
\* and none of its children started.
C22_StartReachesEntries ==
    [][(/\ lastCall'.op = "start"
        /\ \A s \in DOMAIN m_started : ~m_started[s]
        /\ \A r \in Regions : m_history[r] = Null)
       =>
       /\ {s \in DOMAIN m_started : m_started'[s]} = EntryClosure(Root)
       /\ \A r \in Regions :
              /\ r[1] \in EntryClosure(Root) => m_currentState'[r] = m_entryState[r]
              /\ r[1] \notin EntryClosure(Root) => m_currentState'[r] = Null
              /\ m_entryState[r] = Null =>
                     /\ m_currentState'[r] = Null
                     /\ \A c \in m_children(r) : ~m_started'[c]
       /\ \A s \in EntryClosure(Root) : Count(trace', "onEntry", s, Null) = 1
    ]_vars

\* start() on sm{s0(entry){s1}}: the machine and s0 are started, the region of s0 has
\* no entry state, no current child, and s1 is not started
C22_Witness ==
    /\ lastCall.op = "start"
    /\ <<"s0", 0>> \in Regions /\ "s1" \in m_children(<<"s0", 0>>)
    /\ m_entryState[<<"s0", 0>>] = Null
    /\ m_started[Root] /\ m_started["s0"] /\ ~m_started["s1"]
    /\ m_currentState[<<Root, 0>>] = "s0" /\ m_currentState[<<"s0", 0>>] = Null

\* C24: at every point of the construction no two states attached to the machine have
\* the same kind.
C24_Uniqueness ==
    \A s \in States, t \in States : m_index(s) = m_index(t) => s = t

\* addState<s0, s1>() was rejected because the machine already has a state s1: onError
\* of the machine ran once and s1 is where it was
C24_Witness ==
    /\ lastCall.op = "addState" /\ lastCall.kind = "s1" /\ lastCall.on = "s0"
    /\ "s0" \in States /\ "s1" \in States /\ m_parentState["s1"] = Root
    /\ Len(trace) = 1 /\ trace[1].cb = "onError" /\ trace[1].st = Root

\* C25: at every point of the construction each region has at most one child that is
\* an entry state, and the entry state of the region, if any, is one of its children.
C25_EntryChild ==
    \A r \in Regions :
        /\ \A c \in m_children(r), d \in m_children(r) : (m_entry[c] /\ m_entry[d]) => c = d
        /\ m_entryState[r] # Null => m_entryState[r] \in m_children(r) /\ m_entry[m_entryState[r]]

\* addState<s1, Entry>() was rejected because the region of the machine already has
\* the entry state s0: onError ran once, s1 is not in the machine, s0 is still the
\* entry state
C25_Witness ==
    /\ lastCall.op = "addState" /\ lastCall.kind = "s1" /\ lastCall.on = Root
    /\ lastCall.entry /\ lastCall.regionIndex = 0
    /\ "s0" \in States /\ "s1" \notin States
    /\ m_entryState[<<Root, 0>>] = "s0"
    /\ Len(trace) = 1 /\ trace[1].cb = "onError" /\ trace[1].st = Root

\* the topology as the builder call of this step leaves it
TopologyAfter ==
    [parent |-> m_parentState', regionIndex |-> m_regionIndex', entry |-> m_entry',
     entryState |-> m_entryState', transitions |-> m_transitions']

\* the first item of the getTransitions list of state s on EventType that
\* createTransition accepts in topology b, or 0
FirstAccepted(b, s, EventType) ==
    LET items == Hook("getTransitions", s)
        ok == {i \in 1..Len(items) :
                  /\ items[i].evt = EventType
                  /\ createTransitionImpl(b, m_index(s), items[i].holder, items[i].action,
                                          items[i].guard, items[i].dst) # NoTransition}
    IN  IF ok = {} THEN 0 ELSE CHOOSE i \in ok : \A j \in ok : i <= j

\* C26: a transition once added is never replaced: addTransition<S, E, ...> for a
\* source S that already has a transition on E changes no transition and reports one
\* error to the machine; of the getTransitions items of one state on one event the
\* first that can be created is the one stored, and each later one reports an error
\* to that state; addTransition<S, E, H, D> with S = D or D a sibling of S in the
\* region of S, and H the machine or S, is accepted without error when S has no
\* transition on E, whatever other states have a transition on E.
C26_DuplicateTransition ==
    [][/\ \A s \in DOMAIN m_transitions : \A e \in DOMAIN m_transitions[s] :
              /\ e \in DOMAIN m_transitions'[s]
              /\ m_transitions'[s][e] = m_transitions[s][e]
       /\ (lastCall'.op = "addTransition" /\ ~m_started[Root]) =>
              LET S == lastCall'.on
                  E == lastCall'.evt
                  D == lastCall'.dst
                  H == lastCall'.holder
              IN  /\ (S \in States /\ E \in DOMAIN m_transitions[S]) =>
                         /\ m_transitions' = m_transitions
                         /\ Len(trace') = 1 /\ trace'[1].cb = "onError" /\ trace'[1].st = Root
                  /\ (/\ S \in States /\ D \in States /\ H \in {Root, S}
                      /\ S = D \/ m_parentRegion(S) = m_parentRegion(D)
                      /\ E \notin DOMAIN m_transitions[S]) =>
                         /\ trace' = <<>>
                         /\ E \in DOMAIN m_transitions'[S]
                         /\ m_transitions'[S][E].src = S /\ m_transitions'[S][E].dst = D
                         /\ m_transitions'[S][E].holder = H
                         /\ (m_transitions'[S][E].data = nullopt) = (S = D)
                         /\ \A s \in DOMAIN m_transitions :
                                s # S => m_transitions'[s] = m_transitions[s]
       /\ (lastCall'.op = "setup" /\ ~m_started[Root]) =>
              \A s \in States' : \A E \in EventKinds :
                  (E \notin DOMAIN m_transitions[s] /\ FirstAccepted(TopologyAfter, s, E) # 0) =>
                      LET items == Hook("getTransitions", s)
                          i == FirstAccepted(TopologyAfter, s, E)
                      IN  /\ E \in DOMAIN m_transitions'[s]
                          /\ m_transitions'[s][E].dst = items[i].dst
                          /\ m_transitions'[s][E].action = items[i].action
                          /\ Count(trace', "onError", s, Null) >=
                                 Cardinality({j \in 1..Len(items) : j # i /\ items[j].evt = E})
    ]_vars

\* addTransition<s0, e0, s0> was rejected because s0 already had s0 --e0--> s1 from
\* the getTransitions of s0, whose second item on e0 had been rejected as well
C26_Witness ==
    /\ lastCall.op = "addTransition" /\ lastCall.on = "s0" /\ lastCall.dst = "s0"
    /\ lastCall.holder = Root
    /\ "e0" \in DOMAIN m_transitions["s0"]
    /\ m_transitions["s0"]["e0"].dst = "s1" /\ ~m_transitions["s0"]["e0"].action
    /\ Len(trace) = 1 /\ trace[1].cb = "onError" /\ trace[1].st = Root

\* S and D are inside two different regions of one state
CrossingRegions(S, D) ==
    \E A \in Regions, B \in Regions :
        A # B /\ A[1] = B[1] /\ S \in Inside(A) /\ D \in Inside(B)

\* C27: addTransition<S, E, H, D> with S # D reports one error to the machine and
\* changes no transition when S, D or the action holder H is not in the machine, when
\* H neither is S nor contains S, when D is an ancestor or a descendant of S, or when
\* S and D are inside different regions of one state; and at every point every stored
\* transition has an action holder that is its source or an ancestor of its source.
C27_InvalidTransition ==
    [][/\ (lastCall'.op = "addTransition" /\ ~m_started[Root] /\ lastCall'.on # lastCall'.dst) =>
              LET S == lastCall'.on
                  D == lastCall'.dst
                  H == lastCall'.holder
              IN  (\/ S \notin States \/ D \notin States \/ H \notin States
                   \/ (H # S /\ H \notin Ancestors(S))
                   \/ D \in Ancestors(S)
                   \/ S \in Ancestors(D)
                   \/ CrossingRegions(S, D))
                  => /\ m_transitions' = m_transitions
                     /\ Len(trace') = 1 /\ trace'[1].cb = "onError" /\ trace'[1].st = Root
       /\ \A s \in States' : \A e \in DOMAIN m_transitions'[s] :
              LET t == m_transitions'[s][e]
              IN  /\ t.src = s
                  /\ t.holder \in States'
                  /\ b_contains(TopologyAfter, t.holder, s)
    ]_vars

\* addTransition<s0, e0, s1> was rejected with s0 in region 0 and s1 in region 1 of
\* the machine
C27_Witness ==
    /\ lastCall.op = "addTransition" /\ lastCall.on = "s0" /\ lastCall.dst = "s1"
    /\ lastCall.holder = Root
    /\ "s0" \in States /\ "s1" \in States
    /\ m_parentState["s0"] = Root /\ m_parentState["s1"] = Root
    /\ m_regionIndex["s0"] = 0 /\ m_regionIndex["s1"] = 1
    /\ "e0" \notin DOMAIN m_transitions["s0"]
    /\ Len(trace) = 1 /\ trace[1].cb = "onError" /\ trace[1].st = Root

\* the calls that build the machine
BuilderCalls == {"addState", "addTransition", "setHistory", "resetHistory", "setup"}

\* C28: addState, addTransition, setHistory, resetHistory and setup called while the
\* machine is started change nothing: states, regions, entry states, transitions,
\* history, last visited and current children are as before the call.
C28_StartedFrame ==
    [][(lastCall'.op \in BuilderCalls /\ m_started[Root]) =>
        /\ topo' = topo
        /\ m_lastVisitedState' = m_lastVisitedState
        /\ m_currentState' = m_currentState
        /\ m_started' = m_started
    ]_vars

\* addState<s1>() was called on the started machine sm{s0}: s1 is not in the machine
C28_Witness ==
    /\ lastCall.op = "addState" /\ lastCall.on = Root /\ lastCall.kind = "s1"
    /\ m_started[Root]
    /\ "s0" \in States /\ "s1" \notin States

\* the addState call must be rejected: unknown parent, kind already in the machine,
\* or a second entry state for the region
AddStateRejected(call) ==
    \/ call.on \notin States
    \/ \E s \in States : m_index(s) = call.kind
    \/ /\ call.entry
       /\ <<call.on, call.regionIndex>> \in Regions
       /\ \E c \in m_children(<<call.on, call.regionIndex>>) : m_entry[c]

\* the addTransition call must be rejected: unknown source, destination or action
\* holder, action holder not containing the source, source already mapping the event,
\* or destination not reachable from the source
AddTransitionRejected(call) ==
    \/ call.on \notin States \/ call.dst \notin States \/ call.holder \notin States
    \/ (call.holder # call.on /\ call.holder \notin Ancestors(call.on))
    \/ call.evt \in DOMAIN m_transitions[call.on]
    \/ /\ call.on # call.dst
       /\ \/ call.dst \in Ancestors(call.on)
          \/ call.on \in Ancestors(call.dst)
          \/ CrossingRegions(call.on, call.dst)

\* C29: an addState or addTransition call on the stopped machine that must be rejected
\* invokes onError of the machine exactly once, no other onError, leaves no exception
\* in flight and changes nothing; one that need not be rejected invokes no onError and
\* adds the state or the transition.
C29_ErrorOnce ==
    [][/\ (lastCall'.op = "addState" /\ ~m_started[Root]) =>
              /\ ~StateMachineAddState(Topology, lastCall'.on, lastCall'.kind,
                                       lastCall'.regionIndex, lastCall'.entry).thrown
              /\ IF AddStateRejected(lastCall')
                 THEN /\ Len(trace') = 1 /\ trace'[1].cb = "onError" /\ trace'[1].st = Root
                      /\ topo' = topo
                 ELSE /\ trace' = <<>>
                      /\ States' = States \cup {lastCall'.kind}
                      /\ m_parentState'[lastCall'.kind] = lastCall'.on
                      /\ m_regionIndex'[lastCall'.kind] = lastCall'.regionIndex
       /\ (lastCall'.op = "addTransition" /\ ~m_started[Root]) =>
              /\ ~StateMachineAddTransition(Topology, lastCall'.on, lastCall'.evt,
                                            lastCall'.holder, TRUE, FALSE, lastCall'.dst).thrown
              /\ IF AddTransitionRejected(lastCall')
                 THEN /\ Len(trace') = 1 /\ trace'[1].cb = "onError" /\ trace'[1].st = Root
                      /\ topo' = topo
                 ELSE /\ trace' = <<>>
                      /\ lastCall'.evt \in DOMAIN m_transitions'[lastCall'.on]
                      /\ m_transitions'[lastCall'.on][lastCall'.evt].dst = lastCall'.dst
    ]_vars

\* addState<s9, s0>() was rejected because the machine has no state s9: onError of the
\* machine ran once and s0 is not in the machine
C29_Witness ==
    /\ lastCall.op = "addState" /\ lastCall.on = "s9" /\ lastCall.kind = "s0"
    /\ ~m_started[Root]
    /\ "s0" \notin States
    /\ Len(trace) = 1 /\ trace[1].cb = "onError" /\ trace[1].st = Root

\* the setHistory call finds a region of its state that Region::setHistory refuses:
\* Deep with a Deep region on the path above or below it, Shallow with a Deep region above
SetHistoryConflict(call) ==
    /\ call.on \in States
    /\ \E r \in Regions :
        /\ r[1] = call.on
        /\ call.regionIndex \in {-1, r[2]}
        /\ \/ call.history = "Deep"
              /\ \E x \in getDeepAncestorOrDescendant(m_history, r) : x # r
           \/ call.history = "Shallow"
              /\ \E x \in getDeepAncestor(m_history, r) : x # r

\* C30: a setHistory call on the stopped machine that is refused for a Deep/Shallow
\* conflict, and an addState, addTransition or setHistory call on the started machine,
\* each invoke onError of the machine.
C30_ErrorsSurfaced ==
    [][(\/ lastCall'.op = "setHistory" /\ ~m_started[Root] /\ SetHistoryConflict(lastCall')
        \/ lastCall'.op \in {"addState", "addTransition", "setHistory"} /\ m_started[Root])
       => \E i \in 1..Len(trace') : trace'[i].cb = "onError" /\ trace'[i].st = Root]_vars

\* setHistory<s0, 0>(Deep) was refused on the stopped machine because region 0 of the
\* machine has Deep history: the region of s0 keeps no history, and no onError ran
C30_Witness ==
    /\ lastCall.op = "setHistory" /\ lastCall.on = "s0" /\ lastCall.regionIndex = 0
    /\ lastCall.history = "Deep"
    /\ ~m_started[Root]
    /\ <<"s0", 0>> \in Regions /\ m_regionIndex["s0"] = 0
    /\ m_history[<<Root, 0>>] = "Deep"
    /\ m_history[<<"s0", 0>>] = Null
    /\ trace = <<>>

\* C31: processEvent, postEvent, deferEvent and transit called while the machine is
\* not started invoke no callback, start no state and queue nothing.
C31_NotStartedNoop ==
    [][(lastCall'.op \in {"processEvent", "postEvent", "deferEvent", "transit"}
        /\ ~m_started[Root])
       => /\ trace' = <<>>
          /\ m_started' = m_started
          /\ m_currentState' = m_currentState
          /\ m_lastVisitedState' = m_lastVisitedState
          /\ m_postedTransitions' = m_postedTransitions
          /\ m_pendingTransitions' = m_pendingTransitions
          /\ m_processing' = m_processing]_vars

\* s1.postEvent(e2) was called on the machine after it was stopped: s1 has a transition
\* on e2 whose guard and action did not run
C31_Witness ==
    /\ lastCall.op = "postEvent" /\ lastCall.on = "s1" /\ lastCall.evt = "e2"
    /\ lastCall.guard
    /\ ~m_started[Root]
    /\ m_lastVisitedState[<<Root, 0>>] = "s1"
    /\ trace = <<>>

\* the callback whose body made the request at position i of the trace
Thrower(tr, i) ==
    tr[CHOOSE j \in 1..i :
           /\ tr[j].cb \in {"onEntry", "onExit", "guard", "action"}
           /\ \A k \in (j + 1)..i : tr[k].cb \notin {"onEntry", "onExit", "guard", "action"}]

\* the positions of the trace where callback cb threw
Throws(tr, cb) ==
    {i \in 1..Len(tr) : tr[i].cb = "throw" /\ Thrower(tr, i).cb = cb}

\* the exception thrown at position i was handed to onError of state st, at once
CaughtBy(tr, i, st) ==
    /\ i < Len(tr)
    /\ tr[i + 1].cb = "onError" /\ tr[i + 1].st = st

\* how many times the call invoked onError of state st
CountOnError(tr, st) ==
    Cardinality({i \in 1..Len(tr) : tr[i].cb = "onError" /\ tr[i].st = st})

\* how many times a callback of state st threw during the call
CountThrows(tr, st) ==
    Cardinality({i \in 1..Len(tr) : tr[i].cb = "throw" /\ tr[i].st = st})

\* callback cb of state st runs after position i of the trace
Later(tr, i, cb, st) ==
    \E j \in (i + 1)..Len(tr) : tr[j].cb = cb /\ tr[j].st = st

\* C32: when onEntry of a state throws, onError of that state is invoked at once and
\* once for each throw, the state is started and stays so, and each of its regions is
\* entered after it; when onExit of a state throws, onError of that state is invoked
\* at once and once for each throw, the state is not started afterwards, and the
\* destinations of the transitions that processEvent fires are entered after it.
C32_EntryExitErrors ==
    [][/\ \A i \in Throws(trace', "onEntry") :
            LET s == trace'[i].st
            IN  /\ CaughtBy(trace', i, s)
                /\ CountOnError(trace', s) = CountThrows(trace', s)
                /\ trace'[i + 1].started
                /\ \A n \in 1..Len(m_regions(s)) :
                       \E c \in m_children(m_regions(s)[n]) : Later(trace', i, "onEntry", c)
                /\ ~Later(trace', i, "onExit", s) =>
                       /\ m_started'[s]
                       /\ \A n \in 1..Len(m_regions(s)) :
                              /\ m_currentState'[m_regions(s)[n]] # Null
                              /\ m_started'[m_currentState'[m_regions(s)[n]]]
       /\ \A i \in Throws(trace', "onExit") :
            LET s == trace'[i].st
            IN  /\ CaughtBy(trace', i, s)
                /\ CountOnError(trace', s) = CountThrows(trace', s)
                /\ ~Later(trace', i, "onEntry", s) => ~m_started'[s]
                /\ (lastCall'.op = "processEvent" /\ QueuesEmpty) =>
                       \A D \in Targets(lastCall') : Later(trace', i, "onEntry", D)
      ]_vars

\* processEvent(e1) fired s0 -> s1 with s0 and s3 active; onExit of s0 threw: onError
\* of s0 ran, s0 is not started and s1 is
C32_Witness ==
    /\ lastCall.op = "processEvent" /\ lastCall.evt = "e1"
    /\ \E i \in Throws(trace, "onExit") :
          /\ trace[i].st = "s0"
          /\ CaughtBy(trace, i, "s0")
          /\ Later(trace, i, "onEntry", "s1")
    /\ ~m_started["s0"] /\ m_started["s1"]
    /\ m_currentState[<<Root, 0>>] = "s1"

\* the sources of the transitions on evt whose action is a member of state holder
ActionSources(holder, evt) ==
    {S \in States : /\ evt \in DOMAIN m_transitions[S]
                    /\ m_transitions[S][evt].holder = holder
                    /\ m_transitions[S][evt].action}

\* the external transitions whose action threw in this step, as <<position in the
\* trace, source>>; the step is one event given to a machine with empty queues, and
\* the source is active
ActionErrors ==
    IF lastCall'.op \in {"processEvent", "postEvent", "deferEvent"} /\ QueuesEmpty
    THEN {x \in Throws(trace', "action") \X States :
             /\ Active(x[2])
             /\ x[2] \in ActionSources(trace'[x[1]].st, lastCall'.evt)
             /\ m_transitions[x[2]][lastCall'.evt].dst # x[2]}
    ELSE {}

\* no callback of the step is an onEntry or an onExit, and the configuration is the same
NothingExitedOrEntered ==
    /\ \A i \in 1..Len(trace') : trace'[i].cb \notin {"onEntry", "onExit"}
    /\ m_started' = m_started
    /\ m_currentState' = m_currentState
    /\ m_lastVisitedState' = m_lastVisitedState

\* C33: when the action of an external transition throws, onError of the source is
\* invoked once, nothing is exited or entered and the source remains active.
C33_ActionErrorNoop ==
    [][\A x \in ActionErrors :
           /\ CaughtBy(trace', x[1], x[2])
           /\ CountOnError(trace', x[2]) = 1
           /\ NothingExitedOrEntered
           /\ Active(x[2])']_vars

\* processEvent(e2) reached s5 --e2--> s4, whose action is a member of s0 and threw:
\* onError of s5 ran, s5 is still the current state of its region and s4 is not started
C33_Witness ==
    /\ lastCall.op = "processEvent" /\ lastCall.evt = "e2"
    /\ \E i \in Throws(trace, "action") : trace[i].st = "s0" /\ CaughtBy(trace, i, "s5")
    /\ \A i \in 1..Len(trace) : trace[i].cb \notin {"onEntry", "onExit"}
    /\ m_started["s5"] /\ m_currentState[<<"s0", 1>>] = "s5"
    /\ ~m_started["s4"]

\* what checkStates<list...>() has to return: the list is not empty, the machine is
\* started, the first state is a started state of the machine, and each further state
\* is started, differs from the one before it and is its direct child
ChainStarted(list) ==
    /\ list # <<>>
    /\ m_started[Root]
    /\ \A i \in 1..Len(list) :
           /\ list[i] \in States
           /\ m_started[list[i]]
           /\ i > 1 => list[i] # list[i - 1] /\ m_parentState[list[i]] = list[i - 1]

\* C34: checkStates returns true iff the states of the list are started and each is
\* the direct child of the one before it; it returns false for the empty list, for a
\* kind that is not in the machine, for a list with a hole or a repetition, and for
\* every list while the machine is not started.
C34_CheckStates ==
    lastCall.op = "checkStates" => (lastCall.result <=> ChainStarted(lastCall.list))

\* checkStates<sm, s0, s3>() returned true on the started machine with s3 current
C34_Witness ==
    /\ lastCall.op = "checkStates"
    /\ lastCall.list = <<Root, "s0", "s3">>
    /\ lastCall.result
    /\ m_started[Root] /\ m_started["s0"] /\ m_started["s3"]
    /\ m_currentState[<<"s0", 0>>] = "s3"

\* the event that caused the callback at position i of the trace of the call: the event
\* of the item the drain loop took last from the deque (none for a queued transit), or
\* the event given to the call when no item was taken before
CausingEvent(tr, i, call) ==
    LET taken == {j \in 1..(i - 1) :
                     tr[j].cb \in {"dispatch", "dispatchDeferred", "dispatchTransit"}}
    IN  IF taken # {} THEN tr[CHOOSE j \in taken : \A k \in taken : k <= j].evt
        ELSE IF call.op \in {"processEvent", "postEvent", "deferEvent"} THEN call.evt
        ELSE Null

\* no request made by a callback of the call ran callbacks before it returned
NothingNested(tr) ==
    \A j \in 1..Len(tr) : tr[j].cb \in {"post", "defer", "transit", "process"} => ~tr[j].ran

\* C35: inside the onExit and onEntry callbacks caused by an event of kind E,
\* trigEvent<E>() returns the event and trigEvent<E'>() returns null for every other
\* kind; inside the callbacks run by start(), stop() and a transit it returns null for
\* every kind.
C35_TrigEvent ==
    [][NothingNested(trace') =>
          \A i \in 1..Len(trace') :
              trace'[i].cb \in {"onEntry", "onExit"} =>
                  \A e \in EventKinds :
                      trace'[i].trigEvent[e] =
                          IF e = CausingEvent(trace', i, lastCall') THEN e ELSE Null]_vars

\* processEvent(e1) took s1 to s3 and entered s0 on the way: onExit of s1 and onEntry of
\* s0 and s3 saw e1 as the triggering event, and no e0
C35_Witness ==
    /\ lastCall.op = "processEvent" /\ lastCall.evt = "e1"
    /\ \E i, j, k \in 1..Len(trace) :
          /\ i < j /\ j < k
          /\ trace[i].cb = "onExit" /\ trace[i].st = "s1"
          /\ trace[j].cb = "onEntry" /\ trace[j].st = "s0"
          /\ trace[k].cb = "onEntry" /\ trace[k].st = "s3"
          /\ \A n \in {i, j, k} :
                 trace[n].trigEvent["e1"] = "e1" /\ trace[n].trigEvent["e0"] = Null

\* the positions of the trace where the guard or the action of the transition of state
\* S on evt ran
Examined(tr, S, evt) ==
    {i \in 1..Len(tr) : /\ tr[i].cb \in {"guard", "action"}
                        /\ tr[i].evt = evt
                        /\ tr[i].st = m_transitions[S][evt].holder}

\* the callback of the transition of state S on evt returned false: its guard did, or
\* its guard or its action threw
ReturnedFalse(tr, S, evt, guard) ==
    \/ m_transitions[S][evt].guard /\ ~guard
    \/ \E i \in Throws(tr, "guard") \cup Throws(tr, "action") :
           Thrower(tr, i).st = m_transitions[S][evt].holder /\ Thrower(tr, i).evt = evt

\* this step is processEvent on the started machine, with nothing queued before and
\* nothing taken from the queue
OneDispatch ==
    /\ lastCall'.op = "processEvent"
    /\ m_started[Root]
    /\ QueuesEmpty
    /\ \A i \in 1..Len(trace') :
           trace'[i].cb \notin {"dispatch", "dispatchDeferred", "dispatchTransit"}

\* C36: processEvent runs the guard and action of a state's transition on the event
\* before those of a state below it, and those of a state only if the state is active
\* and every state above it has no transition on the event or one whose callback
\* returned false (guard false or exception); in that case the active states below are
\* tried.
C36_OuterFirst ==
    [][OneDispatch =>
          \A c \in States :
              lastCall'.evt \in DOMAIN m_transitions[c] =>
                  /\ Examined(trace', c, lastCall'.evt) # {} => Active(c)
                  /\ \A A \in Ancestors(c) :
                         lastCall'.evt \in DOMAIN m_transitions[A] =>
                             /\ \A i \in Examined(trace', A, lastCall'.evt),
                                   j \in Examined(trace', c, lastCall'.evt) : i < j
                             /\ Examined(trace', c, lastCall'.evt) # {} =>
                                    ReturnedFalse(trace', A, lastCall'.evt, lastCall'.guard)
                  /\ ( /\ Active(c)
                       /\ m_transitions[c][lastCall'.evt].guard
                          \/ m_transitions[c][lastCall'.evt].action
                       /\ \A A \in Ancestors(c) :
                              lastCall'.evt \in DOMAIN m_transitions[A] =>
                                  ReturnedFalse(trace', A, lastCall'.evt, lastCall'.guard) )
                     => Examined(trace', c, lastCall'.evt) # {}]_vars

\* processEvent(e1) with s0 and s3 active and the guards returning false: the guard of
\* s0 ran first, s0 stayed, and the transition of s3 below it was taken
C36_Witness ==
    /\ lastCall.op = "processEvent" /\ lastCall.evt = "e1" /\ ~lastCall.guard
    /\ Len(trace) >= 2
    /\ trace[1].cb = "guard" /\ trace[1].st = "s0"
    /\ trace[2].cb = "action" /\ trace[2].st = "s3"
    /\ m_started["s0"] /\ m_currentState[<<"s0", 0>>] = "s2"
    /\ ~m_started["s1"]

\* the positions of the trace where callback cb ran
At(tr, cb) == {i \in 1..Len(tr) : tr[i].cb = cb}

\* C37: when processEvent fires one external transition, its guard runs first, then its
\* action, then the onExit callbacks, all inside the source outermost state, each state
\* after the states below it and the source outermost state last, then the onEntry
\* callbacks, all inside the destination outermost state, which is first, each state
\* after the states above it and only states below the destination after the
\* destination; no onEntry runs before the last onExit.
C37_CallbackOrder ==
    [][(PlainProcessEvent /\ Cardinality(FiringSources(lastCall'.evt, lastCall'.guard)) = 1) =>
          \A S \in FiringSources(lastCall'.evt, lastCall'.guard) :
              LET t == m_transitions[S][lastCall'.evt]
                  tr == trace'
              IN  t.data # nullopt =>
                    /\ Cardinality(At(tr, "guard") \cap Examined(tr, S, lastCall'.evt))
                           = IF t.guard THEN 1 ELSE 0
                    /\ Cardinality(At(tr, "action")) = IF t.action THEN 1 ELSE 0
                    /\ \A i \in At(tr, "guard") \cap Examined(tr, S, lastCall'.evt) :
                           \A j \in At(tr, "action") \cup At(tr, "onExit") \cup At(tr, "onEntry") :
                               i < j
                    /\ \A i \in At(tr, "action") :
                           /\ tr[i].st = t.holder
                           /\ \A j \in At(tr, "onExit") \cup At(tr, "onEntry") : i < j
                    /\ \A i \in At(tr, "onExit"), j \in At(tr, "onEntry") : i < j
                    /\ \E i \in At(tr, "onExit") :
                           /\ tr[i].st = t.data.srcOutermost
                           /\ \A j \in At(tr, "onExit") : j <= i
                    /\ \A i \in At(tr, "onExit") :
                           /\ contains(t.data.srcOutermost, tr[i].st)
                           /\ \A j \in At(tr, "onExit") :
                                  tr[j].st \in Ancestors(tr[i].st) => i < j
                           /\ \A x \in States :
                                  (tr[i].st \in Ancestors(x) /\ Active(x)) =>
                                      \E j \in At(tr, "onExit") : j < i /\ tr[j].st = x
                    /\ \E i \in At(tr, "onEntry") :
                           /\ tr[i].st = t.data.dstOutermost
                           /\ \A j \in At(tr, "onEntry") : i <= j
                    /\ \A i \in At(tr, "onEntry") :
                           /\ contains(t.data.dstOutermost, tr[i].st)
                           /\ \A j \in At(tr, "onEntry") :
                                  tr[j].st \in Ancestors(tr[i].st) => j < i
                           /\ tr[i].st # t.data.dstOutermost =>
                                  \E j \in At(tr, "onEntry") :
                                      j < i /\ tr[j].st = m_parentState[tr[i].st]
                    /\ \E i \in At(tr, "onEntry") :
                           /\ tr[i].st = t.dst
                           /\ \A j \in At(tr, "onEntry") : i < j => t.dst \in Ancestors(tr[j].st)
      ]_vars

\* processEvent(e1) took s1 to s3 inside s0: onExit of s1, then onEntry of s0, of s4 in
\* the other region of s0, and of the destination s3 last
C37_Witness ==
    /\ lastCall.op = "processEvent" /\ lastCall.evt = "e1"
    /\ Len(trace) = 4
    /\ trace[1].cb = "onExit" /\ trace[1].st = "s1"
    /\ trace[2].cb = "onEntry" /\ trace[2].st = "s0"
    /\ trace[3].cb = "onEntry" /\ trace[3].st \in {"s4", "s5"}
    /\ trace[4].cb = "onEntry" /\ trace[4].st = "s3"

\* the transitions stored in the machine whose source is not their destination
ExternalTransitions ==
    {t \in UNION {{m_transitions[s][e] : e \in DOMAIN m_transitions[s]} : s \in States} :
        t.src # t.dst}

\* C38: every stored transition from S to a different D has transition data: its
\* common ancestor is the deepest state that contains S and D, its source outermost
\* and destination outermost are two different children of the common ancestor in one
\* region, the first contains S and the second contains D.
C38_TransitionData ==
    \A t \in ExternalTransitions :
        LET d == t.data IN
        /\ d # nullopt
        /\ d.src = t.src /\ d.dst = t.dst
        /\ {d.commonAncestor, d.srcOutermost, d.dstOutermost} \subseteq States
        /\ contains(d.commonAncestor, t.src) /\ contains(d.commonAncestor, t.dst)
        /\ \A x \in States :
               (contains(x, t.src) /\ contains(x, t.dst)) => contains(x, d.commonAncestor)
        /\ d.srcOutermost # d.dstOutermost
        /\ m_parentState[d.srcOutermost] = d.commonAncestor
        /\ m_parentState[d.dstOutermost] = d.commonAncestor
        /\ m_regionIndex[d.srcOutermost] = m_regionIndex[d.dstOutermost]
        /\ contains(d.srcOutermost, t.src)
        /\ contains(d.dstOutermost, t.dst)

\* s1 --e0--> s2 is stored with s1 inside s0, and s0 and s2 children of the machine
C38_Witness ==
    /\ {"s0", "s1", "s2"} \subseteq States
    /\ m_parentState["s1"] = "s0" /\ m_parentState["s0"] = Root /\ m_parentState["s2"] = Root
    /\ "e0" \in DOMAIN m_transitions["s1"]
    /\ m_transitions["s1"]["e0"].dst = "s2"
    /\ m_transitions["s1"]["e0"].data = TransitionData(Root, "s0", "s2", "s1", "s2")

\* how many items the drain loop took from the deque during the call
Taken(tr) ==
    Cardinality({i \in 1..Len(tr) :
                    tr[i].cb \in {"dispatch", "dispatchDeferred", "dispatchTransit"}})

\* how many requests the callbacks made during the call
Requests(tr) ==
    Cardinality({i \in 1..Len(tr) : tr[i].cb \in {"post", "defer", "transit", "process"}})

\* the queued items that are deferred events
Deferred(q) == {i \in 1..Len(q) : q[i].m_transition = nullopt /\ q[i].m_deferred}

\* C39: processEvent on the started machine returns, with no iterator misused, after
\* at most 1 + r passes over at most n + r items, n the number of items queued before
\* the call and r the number of requests its callbacks made; when they made none,
\* each queued item was taken exactly once, a deferred event that matched nothing
\* included, and what stays queued are deferred events only.
C39_DrainTerminates ==
    [][(lastCall'.op = "processEvent" /\ m_started[Root] /\ ~undefinedBehaviour') =>
        LET n == Len(m_pendingTransitions) + Len(m_postedTransitions)
            r == Requests(trace')
        IN  /\ ~m_processing'
            /\ m_postedTransitions' = <<>>
            /\ Deferred(m_pendingTransitions') = 1..Len(m_pendingTransitions')
            /\ Taken(trace') <= (1 + r) * (n + r)
            /\ r = 0 =>
                   /\ Taken(trace') = n
                   /\ Cardinality({i \in 1..Len(trace') : trace'[i].cb = "dispatchDeferred"})
                          = Cardinality(Deferred(m_pendingTransitions \o m_postedTransitions))
    ]_vars

\* processEvent(e1) found the deferred e2 queued; the first pass matched it in s1,
\* whose action deferred e0; the second pass tried e0, which matched nothing, and the
\* call returned with e0 queued
C39_Witness ==
    /\ lastCall.op = "processEvent" /\ lastCall.evt = "e1"
    /\ ~undefinedBehaviour
    /\ m_started["s1"]
    /\ Len(m_pendingTransitions) = 1
    /\ m_pendingTransitions[1].m_evt = "e0" /\ m_pendingTransitions[1].m_deferred
    /\ \E i, j, k \in 1..Len(trace) :
           /\ i < j /\ j < k
           /\ trace[i].cb = "dispatchDeferred" /\ trace[i].evt = "e2"
           /\ trace[j].cb = "defer" /\ trace[j].evt = "e0" /\ trace[j].queued
           /\ trace[k].cb = "dispatchDeferred" /\ trace[k].evt = "e0"
    /\ Taken(trace) = 2

\* the histories the getHistory overrides return respect the exclusivity rule among
\* themselves: no region inside a state of a Deep region has a history
ExclusiveHooks(getHistory) ==
    \A r \in Regions : getHistory[r] = "Deep" =>
        \A x \in Regions : (x # r /\ x[1] \in Inside(r)) => getHistory[x] = Null

\* C40: setup() leaves every region with the history its parent state's getHistory
\* returns for it and with no last visited state, whatever setHistory had set before;
\* so a region whose parent state does not override getHistory is left with no
\* history.  Stated for overrides that respect the exclusivity rule among themselves.
C40_SetupHistory ==
    [][(lastCall'.op = "setup" /\ ExclusiveHooks(lastCall'.getHistory)) =>
        \A r \in Regions :
            /\ m_history'[r] = lastCall'.getHistory[r]
            /\ m_lastVisitedState'[r] = Null
    ]_vars

\* setup() was called after the machine had run, the machine overriding getHistory
\* with Shallow, s0 not overriding it: the region of the machine has Shallow history,
\* the regions of s0 none, and no region has a last visited state
C40_Witness ==
    /\ lastCall.op = "setup"
    /\ calls > 0
    /\ lastCall.getHistory[<<Root, 0>>] = "Shallow"
    /\ \A r \in Regions : r[1] # Root => lastCall.getHistory[r] = Null
    /\ m_history = lastCall.getHistory
    /\ \A r \in Regions : m_lastVisitedState[r] = Null

====
